---- MODULE Spec2Model ----
(***************************************************************************)
(* NextIntl-Helper: the translation resolution and text classification     *)
(* engine (path resolver, key flattener, completion engine, classifier).   *)
(*                                                                         *)
(* A JavaScript string is a sequence of one-character strings, so that     *)
(* split, startsWith, trim and the regular expressions are computed on the *)
(* characters.  A JavaScript value is a tagged record; an object keeps its *)
(* own properties as a sequence of [k, v] in insertion order, which is the *)
(* order Object.entries and JSON.stringify follow.                         *)
(***************************************************************************)
EXTENDS Integers, Sequences, FiniteSets, TLC

VARIABLES
  obj,           \* the parsed dictionary the path resolver works on
  translations,  \* the dictionaries last loaded, by language code
  call,          \* the function or handler last run, its arguments and result
  files,         \* the workspace's files: path -> content
  tasks,         \* the invocations of asynchronous handlers and where they stand
  editor         \* the active editor: setting, document text and decorations

vars == <<obj, translations, call, files, tasks, editor>>

\* no workspace file, no handler started, no editor: the pure functions are
\* exercised without them
NoFiles == <<>>
NoTasks == <<>>
NoEditor == [open |-> FALSE]

(***************************************************************************)
(* Strings                                                                 *)
(***************************************************************************)
DOT == "."

RECURSIVE SplitAt(_, _, _)
\* String.prototype.split("."): cur is the segment read so far
SplitAt(s, i, cur) ==
  IF i > Len(s) THEN <<cur>>
  ELSE IF s[i] = DOT THEN <<cur>> \o SplitAt(s, i + 1, <<>>)
  ELSE SplitAt(s, i + 1, Append(cur, s[i]))

Split(s) == SplitAt(s, 1, <<>>)

RECURSIVE Join(_)
\* Array.prototype.join(".")
Join(segs) ==
  IF Len(segs) = 0 THEN <<>>
  ELSE IF Len(segs) = 1 THEN segs[1]
  ELSE segs[1] \o <<DOT>> \o Join(Tail(segs))

\* String.prototype.startsWith
StartsWith(s, p) == Len(p) <= Len(s) /\ SubSeq(s, 1, Len(p)) = p

\* String.prototype.includes
Includes(s, sub) ==
  \E i \in 0..(Len(s) - Len(sub)) : SubSeq(s, i + 1, i + Len(sub)) = sub

\* the template literal `${prefix}.${key}`
DotConcat(prefix, key) == prefix \o <<DOT>> \o key

(***************************************************************************)
(* JavaScript values                                                       *)
(***************************************************************************)
Undefined == [tag |-> "undefined"]
Str(s) == [tag |-> "string", s |-> s]
Num(n) == [tag |-> "number", n |-> n]
Obj(ents) == [tag |-> "object", ents |-> ents]
EmptyObject == Obj(<<>>)
\* an array of one element: an object as well, for typeof and for the
\* property access, with the index "0" for property name
ArrayOf(x) ==
  [tag |-> "object", ents |-> <<[k |-> <<"0">>, v |-> x]>>, isArray |-> TRUE]
IsArray(v) == "isArray" \in DOMAIN v
\* a thrown TypeError (reading or writing a property of undefined)
TypeError == [tag |-> "TypeError"]

\* the typeof operator on the values above
TypeOf(v) == v.tag

HasOwn(o, k) == \E i \in 1..Len(o.ents) : o.ents[i].k = k
OwnIndex(o, k) == CHOOSE i \in 1..Len(o.ents) : o.ents[i].k = k

LENGTH == <<"l", "e", "n", "g", "t", "h">>

DecimalDigits == <<"0", "1", "2", "3", "4", "5", "6", "7", "8", "9">>

\* a property name that is an array index: the canonical decimal form of an
\* integer (those of 2^32 - 1 and more are beyond the names used here)
IsArrayIndex(prop) ==
  /\ Len(prop) > 0
  /\ \A i \in 1..Len(prop) : \E d \in 1..10 : DecimalDigits[d] = prop[i]
  /\ Len(prop) > 1 => prop[1] # "0"

RECURSIVE ToInteger(_)
ToInteger(prop) ==
  IF prop = <<>> THEN 0
  ELSE 10 * ToInteger(SubSeq(prop, 1, Len(prop) - 1))
         + (CHOOSE d \in 1..10 : DecimalDigits[d] = prop[Len(prop)]) - 1

\* v[prop]: an own property of an object; of a primitive string its length
\* and, for an array index within it, the character there; undefined for any
\* other name; a TypeError when v is undefined
GetProp(v, prop) ==
  IF v.tag \in {"undefined", "TypeError"} THEN TypeError
  ELSE IF v.tag = "object"
    THEN IF HasOwn(v, prop) THEN v.ents[OwnIndex(v, prop)].v ELSE Undefined
  ELSE IF v.tag = "string" /\ prop = LENGTH THEN Num(Len(v.s))
  ELSE IF v.tag = "string" /\ IsArrayIndex(prop) /\ ToInteger(prop) < Len(v.s)
    THEN Str(<<v.s[ToInteger(prop) + 1]>>)
  ELSE Undefined

PutProp_KeepExisting(v, prop, x) ==
  IF v.tag \in {"undefined", "TypeError"} \/ x = TypeError THEN TypeError
  ELSE IF v.tag = "object"
    THEN IF HasOwn(v, prop) THEN v
         ELSE Obj(Append(v.ents, [k |-> prop, v |-> x]))
  ELSE v

\* where a new own property comes in the order of Object.entries and
\* JSON.stringify: array indices first, in ascending order, then the other
\* names in the order of their creation
InsertAt(ents, prop) ==
  IF IsArrayIndex(prop)
    THEN 1 + Cardinality({i \in 1..Len(ents) :
                            /\ IsArrayIndex(ents[i].k)
                            /\ ToInteger(ents[i].k) < ToInteger(prop)})
    ELSE Len(ents) + 1

InsertProp(ents, prop, x) ==
  LET at == InsertAt(ents, prop)
  IN SubSeq(ents, 1, at - 1) \o <<[k |-> prop, v |-> x]>>
       \o SubSeq(ents, at, Len(ents))

\* v[prop] = x: replaces the property where it stands or creates it; silently
\* does nothing on a primitive (the modules are not in strict mode); a
\* TypeError when v is undefined
PutProp(v, prop, x) ==
  IF v.tag \in {"undefined", "TypeError"} \/ x = TypeError THEN TypeError
  ELSE IF v.tag = "object"
    THEN IF HasOwn(v, prop)
           THEN Obj([v.ents EXCEPT ![OwnIndex(v, prop)] = [k |-> prop, v |-> x]])
           ELSE Obj(InsertProp(v.ents, prop, x))
  ELSE v

(***************************************************************************)
(* Path Resolver                                                           *)
(***************************************************************************)
\* the guard of the loop of getNestedProperty (no null among the values here)
GetGuard(result) == result = Undefined

RECURSIVE GetLoop(_, _, _)
GetLoop(result, properties, i) ==
  IF i > Len(properties) THEN result
  ELSE IF GetGuard(result) THEN Undefined
  ELSE GetLoop(GetProp(result, properties[i]), properties, i + 1)

getNestedProperty(o, path) == GetLoop(o, Split(path), 1)

\* the two branches of setNestedProperty that assign a fresh {}
NeedsFreshObject_OnlyUndefined(cp) == cp = Undefined

NeedsFreshObject(cp) == cp = Undefined \/ TypeOf(cp) # "object"

RECURSIVE SetLoop(_, _, _, _)
\* the loop over properties and the final assignment, on the object that
\* `current` refers to; gives that object after the mutation
SetLoop(current, properties, i, value) ==
  IF i = Len(properties) THEN PutProp(current, properties[i], value)
  ELSE LET cp == GetProp(current, properties[i])
           child == IF NeedsFreshObject(cp) THEN EmptyObject ELSE cp
       IN PutProp(current, properties[i],
                  SetLoop(child, properties, i + 1, value))

setNestedProperty(o, path, value) == SetLoop(o, Split(path), 1, value)

(***************************************************************************)
(* Key Flattener                                                           *)
(***************************************************************************)
NewKey_NoPrefix(prefix, key) == key

NewKey(prefix, key) == IF prefix # <<>> THEN DotConcat(prefix, key) ELSE key

RECURSIVE FlattenFrom(_, _, _)
\* the loop over Object.entries(obj), from entry i on
FlattenFrom(ents, i, prefix) ==
  IF i > Len(ents) THEN <<>>
  ELSE LET newKey == NewKey(prefix, ents[i].k)
           value == ents[i].v
       IN (IF TypeOf(value) = "object"
             THEN FlattenFrom(value.ents, 1, newKey)
             ELSE <<[key |-> newKey, value |-> value]>>)
          \o FlattenFrom(ents, i + 1, prefix)

flattenKeys(o, prefix) == FlattenFrom(o.ents, 1, prefix)

(***************************************************************************)
(* The path resolver and the flattener applied to one parsed dictionary    *)
(***************************************************************************)
A == <<"a">>
B == <<"b">>
C == <<"c">>
X == <<"x">>

MaxValueLen == 2

RECURSIVE Repeat(_, _)
Repeat(s, n) == IF n = 0 THEN <<>> ELSE s \o Repeat(s, n - 1)

\* leaf values: x, xx, ...
Values == {Repeat(X, n) : n \in 1..MaxValueLen}

\* the paths written to
SetPaths == {A, B, Join(<<A, B>>), Join(<<A, LENGTH>>), Join(<<A, B, C>>)}

\* the paths read
GetPaths == SetPaths \cup {Join(<<B, A>>), Join(<<A, B, LENGTH>>), C}

\* what JSON.parse gives for the dictionaries the runs start from
ParsedFiles ==
  { EmptyObject,
    Obj(<<[k |-> A, v |-> EmptyObject]>>),
    Obj(<<[k |-> B, v |-> Str(X)], [k |-> A, v |-> Str(X)]>>) }

NoCall == [fn |-> "none"]

InitPath ==
  /\ obj \in ParsedFiles
  /\ translations = EmptyObject
  /\ call = NoCall
  /\ files = NoFiles
  /\ tasks = NoTasks
  /\ editor = NoEditor

CallGetNestedProperty(path) ==
  /\ call' = [fn |-> "getNestedProperty", path |-> path,
              ret |-> getNestedProperty(obj, path)]
  /\ UNCHANGED <<obj, translations, files, tasks, editor>>

CallSetNestedProperty(path, value) ==
  LET after == setNestedProperty(obj, path, Str(value))
  IN /\ obj' = IF after = TypeError THEN obj ELSE after
     /\ call' = [fn |-> "setNestedProperty", path |-> path, value |-> value,
                 before |-> obj, threw |-> (after = TypeError)]
     /\ UNCHANGED <<translations, files, tasks, editor>>

CallFlattenKeys ==
  /\ call' = [fn |-> "flattenKeys", ret |-> flattenKeys(obj, <<>>)]
  /\ UNCHANGED <<obj, translations, files, tasks, editor>>

NextPath ==
  \/ \E path \in GetPaths : CallGetNestedProperty(path)
  \/ \E path \in SetPaths, value \in Values : CallSetNestedProperty(path, value)
  \/ CallFlattenKeys

SpecPath == InitPath /\ [][NextPath]_vars

(***************************************************************************)
(* Claims on the path resolver and the flattener                           *)
(***************************************************************************)
MaxSegments == 3

SegmentNames == {A, B, C, LENGTH}

\* every well-formed dot-path of at most MaxSegments segments
WellFormedPaths ==
  UNION { {Join(segs) : segs \in [1..n -> SegmentNames]} : n \in 1..MaxSegments }

RECURSIVE StrictWalk(_, _, _)
\* the resolution the specification describes: "not found" as soon as a
\* segment is missing or the value walked through is not a tree
StrictWalk(v, segs, i) ==
  IF i > Len(segs) THEN v
  ELSE IF v.tag # "object" \/ ~HasOwn(v, segs[i]) THEN Undefined
  ELSE StrictWalk(v.ents[OwnIndex(v, segs[i])].v, segs, i + 1)

Prefix(segs, i) == SubSeq(segs, 1, i)

RECURSIVE Chain(_, _, _)
\* the tree {segs[i]: {segs[i+1]: ... value}}
Chain(segs, i, value) ==
  IF i > Len(segs) THEN value
  ELSE Obj(<<[k |-> segs[i], v |-> Chain(segs, i + 1, value)]>>)

\* C1: round trip: right after setNestedProperty(T, P, V), getNestedProperty(T, P)
\* gives V
C1_RoundTrip ==
  call.fn = "setNestedProperty" =>
    /\ ~call.threw
    /\ getNestedProperty(obj, call.path) = Str(call.value)

\* a set through a path of several segments, one of them a leaf before
C1_Witness ==
  /\ call.fn = "setNestedProperty"
  /\ Len(Split(call.path)) >= 2
  /\ \E i \in 1..(Len(Split(call.path)) - 1) :
       StrictWalk(call.before, Prefix(Split(call.path), i), 1).tag = "string"
  /\ getNestedProperty(obj, call.path) = Str(call.value)

\* C2: flattenKeys(T) has one entry per leaf of T and nothing else: each entry
\* resolves to its value, every path that resolves to a leaf string is an entry,
\* and no key is listed twice
C2_FlattenExact ==
  call.fn = "flattenKeys" =>
    LET r == call.ret
    IN /\ \A i \in 1..Len(r) : getNestedProperty(obj, r[i].key) = r[i].value
       /\ \A p \in WellFormedPaths :
            StrictWalk(obj, Split(p), 1).tag = "string" =>
              \E i \in 1..Len(r) :
                r[i].key = p /\ r[i].value = StrictWalk(obj, Split(p), 1)
       /\ \A i, j \in 1..Len(r) : r[i].key = r[j].key => i = j

\* a flattening of a tree with leaves at several depths
C2_Witness ==
  /\ call.fn = "flattenKeys"
  /\ Len(call.ret) >= 3
  /\ \E i, j \in 1..Len(call.ret) :
       Len(Split(call.ret[i].key)) = 1 /\ Len(Split(call.ret[j].key)) = 3

\* C3: getNestedProperty never raises, gives undefined when a segment is
\* missing or a value walked through is not a tree, and gives a value only
\* when every segment before the last names a sub-tree
C3_GetUndefinedUnlessTree ==
  call.fn = "getNestedProperty" =>
    LET segs == Split(call.path)
    IN /\ call.ret # TypeError
       /\ StrictWalk(obj, segs, 1) = Undefined => call.ret = Undefined
       /\ call.ret # Undefined =>
            \A i \in 1..(Len(segs) - 1) :
              StrictWalk(obj, Prefix(segs, i), 1).tag = "object"

\* C4: setNestedProperty never raises, leaves a sub-tree at every segment but
\* the last, puts a fresh tree holding only the rest of the path where the
\* value before was not a tree, and assigns the value at the last segment;
\* set({}, "a.b.c", "x") gives {"a":{"b":{"c":"x"}}}, flattened [("a.b.c","x")]
C4_SetCreatesPath ==
  call.fn = "setNestedProperty" =>
    LET segs == Split(call.path)
        n == Len(segs)
        abc == Join(<<A, B, C>>)
    IN /\ ~call.threw
       /\ \A i \in 1..(n - 1) :
            /\ StrictWalk(obj, Prefix(segs, i), 1).tag = "object"
            /\ StrictWalk(call.before, Prefix(segs, i), 1).tag # "object" =>
                 StrictWalk(obj, Prefix(segs, i), 1)
                   = Chain(segs, i + 1, Str(call.value))
       /\ StrictWalk(obj, segs, 1) = Str(call.value)
       /\ (call.before = EmptyObject /\ call.path = abc /\ call.value = X) =>
            /\ obj = Chain(<<A, B, C>>, 1, Str(X))
            /\ flattenKeys(obj, <<>>) = <<[key |-> abc, value |-> Str(X)]>>

\* a leaf on the way was replaced by a tree
C4_Witness ==
  /\ call.fn = "setNestedProperty"
  /\ StrictWalk(call.before, <<A>>, 1).tag = "string"
  /\ StrictWalk(obj, <<A>>, 1).tag = "object"
  /\ StrictWalk(obj, <<B>>, 1).tag = "string"

\* the example of C4 has run
C4_ExampleReached ==
  /\ call.fn = "setNestedProperty"
  /\ call.before = EmptyObject
  /\ call.path = Join(<<A, B, C>>)

(***************************************************************************)
(* Completion Engine                                                       *)
(***************************************************************************)
EN == <<"e", "n">>
NL == <<"n", "l">>

\* Object.keys
ObjectKeys(o) == [i \in 1..Len(o.ents) |-> o.ents[i].k]

InSeq(x, seq) == \E i \in 1..Len(seq) : seq[i] = x

\* a Set that would iterate from its newest element back
SetAdd_NewestFirst(seq, x) == IF InSeq(x, seq) THEN seq ELSE <<x>> \o seq

\* Set.prototype.add: a Set iterates in insertion order
SetAdd(seq, x) == IF InSeq(x, seq) THEN seq ELSE Append(seq, x)

\* the property name that `undefined` is converted to by translations[undefined]
UNDEFINED_NAME == <<"u", "n", "d", "e", "f", "i", "n", "e", "d">>

ReferenceLang_First(tr) ==
  IF Len(tr.ents) > 0 THEN ObjectKeys(tr)[1] ELSE UNDEFINED_NAME

\* Object.keys(translations).includes("en") ? "en" : Object.keys(translations)[0]
ReferenceLang(tr) ==
  IF InSeq(EN, ObjectKeys(tr)) THEN EN
  ELSE IF Len(tr.ents) > 0 THEN ObjectKeys(tr)[1]
  ELSE UNDEFINED_NAME

\* partialKey.replace(/\.$/, "")
StripTrailingDot(s) ==
  IF Len(s) > 0 /\ s[Len(s)] = DOT THEN SubSeq(s, 1, Len(s) - 1) ELSE s

MatchingKeys(allKeys, normalizedPartialKey) ==
  LET Keep(entry) ==
        /\ StartsWith(entry.key, normalizedPartialKey)
        /\ (Len(entry.key) > Len(normalizedPartialKey)
              \/ normalizedPartialKey = <<>>)
  IN SelectSeq(allKeys, Keep)

IsMatch_Always(currentSegments, entrySegments) == TRUE

\* "make sure all existing segments match"
IsMatch(currentSegments, entrySegments) ==
  \A i \in 1..Len(currentSegments) : currentSegments[i] = entrySegments[i]

\* the segment path up to and including the next segment
SegmentPath(currentSegments, entrySegments) ==
  Join(SubSeq(entrySegments, 1, Len(currentSegments) + 1))

RECURSIVE DirectChildren(_, _, _, _, _)
\* matchingKeys.forEach: the Set directChildren after entries i.. are visited
DirectChildren(matchingKeys, i, normalizedPartialKey, currentSegments, acc) ==
  IF i > Len(matchingKeys) THEN acc
  ELSE LET entry == matchingKeys[i]
           entrySegments == Split(entry.key)
           add ==
             /\ entry.key # normalizedPartialKey
             /\ Len(entrySegments) > Len(currentSegments)
             /\ IsMatch(currentSegments, entrySegments)
             /\ entrySegments[Len(currentSegments) + 1] # <<>>
       IN DirectChildren(matchingKeys, i + 1, normalizedPartialKey,
            currentSegments,
            IF add THEN SetAdd(acc, SegmentPath(currentSegments, entrySegments))
            ELSE acc)

\* the entries pushed to exactMatches inside matchingKeys.forEach
ExactMatches(matchingKeys, normalizedPartialKey) ==
  LET Keep(entry) == entry.key = normalizedPartialKey
  IN SelectSeq(matchingKeys, Keep)

HasChildren_Never(keys, segment) == FALSE

HasChildren_Always(keys, segment) == TRUE

\* keys.some(entry => entry.key.startsWith(segment + ".") && entry.key !== segment)
HasChildren(keys, segment) ==
  \E i \in 1..Len(keys) :
    /\ StartsWith(keys[i].key, segment \o <<DOT>>)
    /\ keys[i].key # segment

SegmentItem(keys, segment) ==
  [label |-> segment,
   kind |-> IF HasChildren(keys, segment) THEN "Module" ELSE "Property"]

ExactItem(entry) ==
  [label |-> entry.key, kind |-> "Value", detail |-> entry.value]

TopLevelSegments_EveryKey(allKeys, i, acc) ==
  [j \in 1..Len(allKeys) |-> Split(allKeys[j].key)[1]]

RECURSIVE TopLevelSegments(_, _, _)
\* allKeys.forEach: the Set of first segments
TopLevelSegments(allKeys, i, acc) ==
  IF i > Len(allKeys) THEN acc
  ELSE TopLevelSegments(allKeys, i + 1, SetAdd(acc, Split(allKeys[i].key)[1]))

NoItems == [undefined |-> TRUE, items |-> <<>>]
Items(items) == [undefined |-> FALSE, items |-> items]

\* tFunctionMatch is null or carries the partial key captured from the line
NoMatch == [matched |-> FALSE]
Match(partialKey) == [matched |-> TRUE, partialKey |-> partialKey]

provideCompletionItems(tr, tFunctionMatch) ==
  IF ~tFunctionMatch.matched THEN NoItems
  ELSE LET referenceLang == ReferenceLang(tr)
           tree == GetProp(tr, referenceLang)
       IN IF tree = Undefined THEN NoItems
          ELSE
            LET allKeys == flattenKeys(tree, <<>>)
                partialKey == tFunctionMatch.partialKey
                normalizedPartialKey == StripTrailingDot(partialKey)
            IN IF partialKey # <<>>
                 THEN LET matchingKeys ==
                            MatchingKeys(allKeys, normalizedPartialKey)
                          currentSegments == Split(normalizedPartialKey)
                          directChildren ==
                            DirectChildren(matchingKeys, 1,
                              normalizedPartialKey, currentSegments, <<>>)
                          exactMatches ==
                            ExactMatches(matchingKeys, normalizedPartialKey)
                      IN Items(
                           [i \in 1..Len(directChildren) |->
                              SegmentItem(matchingKeys, directChildren[i])]
                           \o [i \in 1..Len(exactMatches) |->
                                 ExactItem(exactMatches[i])])
                 ELSE LET topLevelSegments == TopLevelSegments(allKeys, 1, <<>>)
                      IN Items([i \in 1..Len(topLevelSegments) |->
                                  SegmentItem(allKeys, topLevelSegments[i])])

(***************************************************************************)
(* The earlier completion provider kept in the repository                  *)
(***************************************************************************)
\* remainingPath.split(".")[1], undefined when there is no second piece
LegacyNextSegment(remainingPath) ==
  LET pieces == Split(remainingPath)
  IN IF Len(pieces) >= 2 THEN pieces[2] ELSE <<>>

LegacyFullSegment(partialKey, nextSegment) ==
  partialKey
    \o (IF partialKey[Len(partialKey)] = DOT THEN <<>> ELSE <<DOT>>)
    \o nextSegment

RECURSIVE LegacyKeySegments(_, _, _, _)
\* the keys of the object keySegments, in insertion order
LegacyKeySegments(matchingKeys, i, partialKey, acc) ==
  IF i > Len(matchingKeys) THEN acc
  ELSE LET entry == matchingKeys[i]
           remainingPath ==
             SubSeq(entry.key, Len(partialKey) + 1, Len(entry.key))
           nextSegment == LegacyNextSegment(remainingPath)
       IN LegacyKeySegments(matchingKeys, i + 1, partialKey,
            IF entry.key # partialKey /\ nextSegment # <<>>
              THEN SetAdd(acc, LegacyFullSegment(partialKey, nextSegment))
              ELSE acc)

LegacyExactMatches(matchingKeys, partialKey) ==
  LET Keep(entry) ==
        \/ entry.key = partialKey
        \/ LET remainingPath ==
                 SubSeq(entry.key, Len(partialKey) + 1, Len(entry.key))
           IN /\ LegacyNextSegment(remainingPath) = <<>>
              /\ StartsWith(remainingPath, <<DOT>>)
  IN SelectSeq(matchingKeys, Keep)

LegacySegmentItem(segment) == [label |-> segment, kind |-> "Module"]

legacyProvideCompletionItems(tr, tFunctionMatch) ==
  IF ~tFunctionMatch.matched THEN NoItems
  ELSE LET referenceLang == ReferenceLang(tr)
           tree == GetProp(tr, referenceLang)
       IN IF tree = Undefined THEN NoItems
          ELSE
            LET allKeys == flattenKeys(tree, <<>>)
                partialKey == tFunctionMatch.partialKey
            IN IF partialKey # <<>>
                 THEN LET Keep(entry) == StartsWith(entry.key, partialKey)
                          matchingKeys == SelectSeq(allKeys, Keep)
                          keySegments ==
                            LegacyKeySegments(matchingKeys, 1, partialKey, <<>>)
                          exactMatches ==
                            LegacyExactMatches(matchingKeys, partialKey)
                      IN Items(
                           [i \in 1..Len(keySegments) |->
                              LegacySegmentItem(keySegments[i])]
                           \o [i \in 1..Len(exactMatches) |->
                                 ExactItem(exactMatches[i])])
                 ELSE LET topLevelSegments == TopLevelSegments(allKeys, 1, <<>>)
                      IN Items([i \in 1..Len(topLevelSegments) |->
                                  LegacySegmentItem(topLevelSegments[i])])

(***************************************************************************)
(* The completion providers applied to loaded dictionaries                 *)
(***************************************************************************)
AB == <<"a", "b">>
Y == <<"y">>
Z == <<"z">>

COMMON == <<"c", "o", "m", "m", "o", "n">>
SAVE == <<"s", "a", "v", "e">>
CANCEL == <<"c", "a", "n", "c", "e", "l">>
FORM == <<"f", "o", "r", "m">>
FORMAL == <<"f", "o", "r", "m", "a", "l">>

MaxTopKeys == 2

Min(m, n) == IF m <= n THEN m ELSE n

\* the sequences of n distinct keys
Arrangements(keys, n) ==
  {ks \in [1..n -> keys] : \A i, j \in 1..n : ks[i] = ks[j] => i = j}

\* the objects of at most maxKeys properties named in keys, in every order
ObjectsOver(keys, vals, maxKeys) ==
  UNION { { Obj([i \in 1..n |-> [k |-> ks[i], v |-> vs[i]]]) :
              ks \in Arrangements(keys, n), vs \in [1..n -> vals] } :
          n \in 0..Min(maxKeys, Cardinality(keys)) }

Prop(k, v) == [k |-> k, v |-> v]

Sections ==
  { Obj(<<Prop(Y, Str(X))>>),
    Obj(<<Prop(X, Str(X)), Prop(Y, Str(X))>>),
    Obj(<<Prop(X, Obj(<<Prop(Z, Str(X))>>)), Prop(Y, Str(X))>>) }

CommonTree ==
  Obj(<<Prop(COMMON, Obj(<<Prop(SAVE, Str(<<"S", "a", "v", "e">>)),
                           Prop(CANCEL,
                                Str(<<"C", "a", "n", "c", "e", "l">>))>>))>>)

AxAyBzTree ==
  Obj(<<Prop(A, Obj(<<Prop(X, Str(X)), Prop(Y, Str(Y))>>)),
        Prop(B, Obj(<<Prop(Z, Str(Z))>>))>>)

FormalTree == Obj(<<Prop(FORMAL, Obj(<<Prop(X, Str(X))>>))>>)

AyAxTree == Obj(<<Prop(A, Obj(<<Prop(Y, Str(Y)), Prop(X, Str(X))>>))>>)

DictionaryTrees ==
  ObjectsOver({A, AB, B}, {Str(X)} \cup Sections, MaxTopKeys)
    \cup {CommonTree, AxAyBzTree, FormalTree, AyAxTree}

\* what findTranslationFiles has loaded: mostly one English dictionary
CompletionDictionaries ==
  { Obj(<<Prop(EN, t)>>) : t \in DictionaryTrees }
    \cup { EmptyObject,
           Obj(<<Prop(NL, FormalTree), Prop(EN, AxAyBzTree)>>),
           Obj(<<Prop(NL, AxAyBzTree)>>) }

PartialKeys ==
  { <<>>, <<DOT>>, A, A \o <<DOT>>, A \o <<DOT, DOT>>, AB, AB \o <<DOT>>, B,
    Join(<<A, X>>), Join(<<A, X>>) \o <<DOT>>, Join(<<A, X, Z>>),
    Join(<<AB, Y>>), X, COMMON, COMMON \o <<DOT>>, FORM }

InitCompletion ==
  /\ obj = EmptyObject
  /\ translations \in CompletionDictionaries
  /\ call = NoCall
  /\ files = NoFiles
  /\ tasks = NoTasks
  /\ editor = NoEditor

ProvideCompletionItems(tFunctionMatch) ==
  /\ call' = [fn |-> "provideCompletionItems", match |-> tFunctionMatch,
              ret |-> provideCompletionItems(translations, tFunctionMatch)]
  /\ UNCHANGED <<obj, translations, files, tasks, editor>>

LegacyProvideCompletionItems(tFunctionMatch) ==
  /\ call' = [fn |-> "legacyProvideCompletionItems", match |-> tFunctionMatch,
              ret |-> legacyProvideCompletionItems(translations,
                                                   tFunctionMatch)]
  /\ UNCHANGED <<obj, translations, files, tasks, editor>>

Matches == {NoMatch} \cup {Match(partialKey) : partialKey \in PartialKeys}

NextCompletion ==
  \/ \E m \in Matches : ProvideCompletionItems(m)
  \/ \E m \in Matches : LegacyProvideCompletionItems(m)

SpecCompletion == InitCompletion /\ [][NextCompletion]_vars

(***************************************************************************)
(* Claims on the completion engine                                         *)
(***************************************************************************)
\* the flattened keys of the reference dictionary
ReferenceKeys ==
  LET tree == GetProp(translations, ReferenceLang(translations))
  IN IF tree = Undefined THEN <<>> ELSE flattenKeys(tree, <<>>)

Range(seq) == {seq[i] : i \in 1..Len(seq)}

IsSegmentItem(item) == item.kind \in {"Module", "Property"}

\* the segment candidates of a result, with their tags
SegmentItems(ret) == {item \in Range(ret.items) : IsSegmentItem(item)}

SegmentLabels(ret) == {item.label : item \in SegmentItems(ret)}

\* a completion of a non-empty partial key that returned a list
CompletedPartial(fn) ==
  /\ call.fn = fn
  /\ call.match.matched
  /\ call.match.partialKey # <<>>
  /\ ~call.ret.undefined

\* the paths p.s for which some flattened key has the segments of p first
\* and the segment s next
NextSegmentPaths(p) ==
  LET ps == Split(p)
  IN { DotConcat(p, Split(k)[Len(ps) + 1]) :
         k \in { e.key : e \in { e \in Range(ReferenceKeys) :
                   /\ Len(Split(e.key)) > Len(ps)
                   /\ SubSeq(Split(e.key), 1, Len(ps)) = ps } } }

NonEmptySegments(p) == \A i \in 1..Len(Split(p)) : Split(p)[i] # <<>>

\* C5: for a non-empty partial, with p the partial less one trailing dot, the
\* segment candidates are the distinct paths p.s that some flattened key
\* continues; "p" and "p." give the same candidates; {"common": {"save",
\* "cancel"}} with "common." gives common.save and common.cancel, both leaf
C5_SegmentCandidates ==
  CompletedPartial("provideCompletionItems") =>
    LET partialKey == call.match.partialKey
        p == StripTrailingDot(partialKey)
    IN /\ SegmentLabels(call.ret) = NextSegmentPaths(p)
       /\ \A i, j \in 1..Len(call.ret.items) :
            call.ret.items[i].label = call.ret.items[j].label => i = j
       /\ (partialKey = p /\ NonEmptySegments(p)) =>
            SegmentItems(provideCompletionItems(translations,
                                                Match(p \o <<DOT>>)))
              = SegmentItems(call.ret)
       /\ (translations = Obj(<<Prop(EN, CommonTree)>>)
             /\ partialKey = COMMON \o <<DOT>>) =>
            SegmentItems(call.ret)
              = { [label |-> Join(<<COMMON, SAVE>>), kind |-> "Property"],
                  [label |-> Join(<<COMMON, CANCEL>>), kind |-> "Property"] }

\* a partial with a trailing dot was completed to several candidates
C5_Witness ==
  /\ CompletedPartial("provideCompletionItems")
  /\ call.match.partialKey = A \o <<DOT>>
  /\ Cardinality(SegmentLabels(call.ret)) = 2

\* the example of C5 has run
C5_ExampleReached ==
  /\ CompletedPartial("provideCompletionItems")
  /\ translations = Obj(<<Prop(EN, CommonTree)>>)
  /\ call.match.partialKey = COMMON \o <<DOT>>

\* the empty partial completed against the keys a.x, a.y, b.z
EmptyPartialOnAxAyBz ==
  /\ call.fn = "provideCompletionItems"
  /\ call.match.matched
  /\ call.match.partialKey = <<>>
  /\ {e.key : e \in Range(ReferenceKeys)}
       = {Join(<<A, X>>), Join(<<A, Y>>), Join(<<B, Z>>)}

\* C6 as stated: the candidates are "a" tagged category and "b" tagged leaf
C6_Original ==
  EmptyPartialOnAxAyBz =>
    /\ ~call.ret.undefined
    /\ Range(call.ret.items)
         = {[label |-> A, kind |-> "Module"], [label |-> B, kind |-> "Property"]}

\* C6 amended: the candidates are "a" and "b", both tagged category (b.z
\* starts with "b.")
C6_BothCategories ==
  EmptyPartialOnAxAyBz =>
    /\ ~call.ret.undefined
    /\ Range(call.ret.items)
         = {[label |-> A, kind |-> "Module"], [label |-> B, kind |-> "Module"]}

C6_Witness == EmptyPartialOnAxAyBz /\ Len(call.ret.items) = 2

\* C7: when the normalized partial equals a flattened key, the result holds an
\* exact-match candidate for that key carrying its value
C7_ExactMatchReturned ==
  CompletedPartial("provideCompletionItems") =>
    \A e \in Range(ReferenceKeys) :
      e.key = StripTrailingDot(call.match.partialKey) =>
        \E i \in 1..Len(call.ret.items) :
          /\ call.ret.items[i].kind = "Value"
          /\ call.ret.items[i].label = e.key
          /\ call.ret.items[i].detail = e.value

\* label is made of the first segments of key
SegmentPrefixOf(label, key) ==
  /\ Len(Split(label)) <= Len(Split(key))
  /\ SubSeq(Split(key), 1, Len(Split(label))) = Split(label)

PrefixConsistent ==
  /\ \A label \in SegmentLabels(call.ret) :
       \E e \in Range(ReferenceKeys) : SegmentPrefixOf(label, e.key)
  /\ (translations = Obj(<<Prop(EN, FormalTree)>>)
        /\ call.match.partialKey = FORM) =>
       SegmentLabels(call.ret) = {}

\* C8: every segment candidate a completion returns is made of the first
\* segments of some flattened key, and "form" gets no candidate from
\* "formal.x"; stated of both completion providers of the repository
C8_PrefixConsistent ==
  (CompletedPartial("provideCompletionItems")
     \/ CompletedPartial("legacyProvideCompletionItems")) => PrefixConsistent

\* the same, of the provider of src/completionProvider.js alone
C8_StrictProviderOnly ==
  CompletedPartial("provideCompletionItems") => PrefixConsistent

\* a completion of the empty partial key that returned a list
CompletedEmptyPartial ==
  /\ call.fn = "provideCompletionItems"
  /\ call.match.matched
  /\ call.match.partialKey = <<>>
  /\ ~call.ret.undefined

\* C19: for the empty partial path the candidates are exactly the distinct
\* first segments of the flattened keys, each once and nothing else, and a
\* candidate is tagged category iff some flattened key starts with the
\* segment followed by '.', otherwise leaf
C19_TopLevelCandidates ==
  CompletedEmptyPartial =>
    LET items == call.ret.items
    IN /\ {items[i].label : i \in 1..Len(items)}
            = {Split(e.key)[1] : e \in Range(ReferenceKeys)}
       /\ \A i, j \in 1..Len(items) : items[i].label = items[j].label => i = j
       /\ \A i \in 1..Len(items) :
            /\ items[i].kind \in {"Module", "Property"}
            /\ items[i].kind = "Module" <=>
                 \E e \in Range(ReferenceKeys) :
                   StartsWith(e.key, items[i].label \o <<DOT>>)

\* the empty partial gave a category and a leaf, from more keys than candidates
C19_Witness ==
  /\ CompletedEmptyPartial
  /\ \E i, j \in 1..Len(call.ret.items) :
       /\ call.ret.items[i].kind = "Module"
       /\ call.ret.items[j].kind = "Property"
  /\ Len(ReferenceKeys) > Len(call.ret.items)

\* C20: for a non-empty partial path a segment candidate c is tagged category
\* iff some flattened key is strictly longer than c and starts with c
\* followed by '.', otherwise leaf; a candidate that is itself a flattened
\* key is tagged leaf
C20_CategoryIffLongerKey ==
  CompletedPartial("provideCompletionItems") =>
    \A item \in SegmentItems(call.ret) :
      /\ item.kind = "Module" <=>
           \E e \in Range(ReferenceKeys) :
             /\ Len(e.key) > Len(item.label)
             /\ StartsWith(e.key, item.label \o <<DOT>>)
      /\ (\E e \in Range(ReferenceKeys) : e.key = item.label) =>
           item.kind = "Property"

\* a non-empty partial gave a category and a leaf that is a complete key
C20_Witness ==
  /\ CompletedPartial("provideCompletionItems")
  /\ \E c, d \in SegmentItems(call.ret) :
       /\ c.kind = "Module"
       /\ d.kind = "Property"
       /\ \E e \in Range(ReferenceKeys) : e.key = d.label

\* the segments of candidate c are the first segments of the key
UnderCandidate(key, c) ==
  LET ks == Split(key)
      cs == Split(c)
  IN Len(ks) >= Len(cs) /\ SubSeq(ks, 1, Len(cs)) = cs

\* the place in flattenKeys' output of the first key under candidate c, 0
\* when there is none
FirstUnder(c) ==
  LET under == {k \in 1..Len(ReferenceKeys) :
                  UnderCandidate(ReferenceKeys[k].key, c)}
  IN IF under = {} THEN 0
     ELSE CHOOSE k \in under : \A j \in under : k <= j

\* the segment candidates of a result, in the order of the list
SegmentSequence(ret) == SelectSeq(ret.items, IsSegmentItem)

\* C21: the segment candidates are deduplicated and come in flatten order:
\* c1 precedes c2 iff the first flattened key under c1 comes before the
\* first flattened key under c2; nothing sorts them by name
C21_FlattenOrder ==
  (/\ call.fn = "provideCompletionItems"
   /\ call.match.matched
   /\ ~call.ret.undefined) =>
    LET candidates == SegmentSequence(call.ret)
    IN \A i, j \in 1..Len(candidates) :
         /\ FirstUnder(candidates[i].label) > 0
         /\ candidates[i].label = candidates[j].label => i = j
         /\ i < j <=> FirstUnder(candidates[i].label)
                        < FirstUnder(candidates[j].label)

\* two candidates were emitted against the alphabet, b before a, for the
\* empty partial
C21_Witness ==
  /\ CompletedEmptyPartial
  /\ Len(SegmentSequence(call.ret)) = 2
  /\ SegmentSequence(call.ret)[1].label = B
  /\ SegmentSequence(call.ret)[2].label = A
  /\ Len(ReferenceKeys) > 2

\* the same for the children of a partial: a.y before a.x
C21_ChildrenAgainstAlphabet ==
  /\ CompletedPartial("provideCompletionItems")
  /\ Len(SegmentSequence(call.ret)) = 2
  /\ SegmentSequence(call.ret)[1].label = Join(<<A, Y>>)
  /\ SegmentSequence(call.ret)[2].label = Join(<<A, X>>)

(***************************************************************************)
(* Text Classifier                                                         *)
(***************************************************************************)
Lower ==
  {"a", "b", "c", "d", "e", "f", "g", "h", "i", "j", "k", "l", "m",
   "n", "o", "p", "q", "r", "s", "t", "u", "v", "w", "x", "y", "z"}
Upper ==
  {"A", "B", "C", "D", "E", "F", "G", "H", "I", "J", "K", "L", "M",
   "N", "O", "P", "Q", "R", "S", "T", "U", "V", "W", "X", "Y", "Z"}
Digit == {"0", "1", "2", "3", "4", "5", "6", "7", "8", "9"}
HexLetter == {"a", "b", "c", "d", "e", "f", "A", "B", "C", "D", "E", "F"}
\* \s, and what String.prototype.trim removes
WhiteSpace == {" ", "\t", "\n", "\r", "\f"}
\* \w
WordChar == Lower \cup Upper \cup Digit \cup {"_"}
Quote == {"\"", "'"}

AllIn(s, chars) == \A i \in 1..Len(s) : s[i] \in chars

\* String.prototype.includes of one character
HasChar(s, c) == \E i \in 1..Len(s) : s[i] = c

RECURSIVE TrimStart(_)
TrimStart(s) ==
  IF Len(s) > 0 /\ s[1] \in WhiteSpace THEN TrimStart(Tail(s)) ELSE s

RECURSIVE TrimEnd(_)
TrimEnd(s) ==
  IF Len(s) > 0 /\ s[Len(s)] \in WhiteSpace
    THEN TrimEnd(SubSeq(s, 1, Len(s) - 1))
    ELSE s

\* String.prototype.trim
Trim(s) == TrimEnd(TrimStart(s))

\* text.replace(/^["']|["']$/g, "").trim()
cleanStringLiteral(text) ==
  LET noLead == IF Len(text) > 0 /\ text[1] \in Quote THEN Tail(text) ELSE text
      noTrail == IF Len(noLead) > 0 /\ noLead[Len(noLead)] \in Quote
                   THEN SubSeq(noLead, 1, Len(noLead) - 1)
                   ELSE noLead
  IN Trim(noTrail)

\* the characters i..j of s are all in chars (true of an empty stretch)
Stretch(s, i, j, chars) == \A k \in i..j : s[k] \in chars

\* /^(\d{1,2}:\d{2}(:\d{2})?|00:00)$/
TimeFormat(text) ==
  \E n \in 1..2 :
    /\ Len(text) \in {n + 3, n + 6}
    /\ Stretch(text, 1, n, Digit)
    /\ text[n + 1] = ":"
    /\ Stretch(text, n + 2, n + 3, Digit)
    /\ Len(text) = n + 6 =>
         text[n + 4] = ":" /\ Stretch(text, n + 5, n + 6, Digit)

\* /^\d{1,2}[-/]\d{1,2}[-/]\d{2,4}$/
DateFormat(text) ==
  \E d \in 1..2, m \in 1..2, y \in 2..4 :
    /\ Len(text) = d + m + y + 2
    /\ Stretch(text, 1, d, Digit)
    /\ text[d + 1] \in {"-", "/"}
    /\ Stretch(text, d + 2, d + m + 1, Digit)
    /\ text[d + m + 2] \in {"-", "/"}
    /\ Stretch(text, d + m + 3, d + m + y + 2, Digit)

\* text.startsWith("http") || text.startsWith("www.")
UrlPrefix(text) ==
  \/ StartsWith(text, <<"h", "t", "t", "p">>)
  \/ StartsWith(text, <<"w", "w", "w", ".">>)

\* /^#[0-9a-f]{3,8}$/i
HexColor(text) ==
  /\ Len(text) \in 4..9
  /\ text[1] = "#"
  /\ Stretch(text, 2, Len(text), Digit \cup HexLetter)

CssClassLike_CaseSensitive(text) ==
  /\ Len(text) >= 1
  /\ AllIn(text, Lower \cup Digit \cup {"-"})
  /\ HasChar(text, "-")
  /\ ~HasChar(text, " ")

\* /^[a-z0-9\-_\s]+$/i.test(text) && text.includes("-") && !text.includes(" ")
CssClassLike(text) ==
  /\ Len(text) >= 1
  /\ AllIn(text, Lower \cup Upper \cup Digit \cup {"-", "_"} \cup WhiteSpace)
  /\ HasChar(text, "-")
  /\ ~HasChar(text, " ")

commonPropNames ==
  { <<"c", "l", "a", "s", "s", "N", "a", "m", "e">>, <<"i", "d">>,
    <<"k", "e", "y">>, <<"t", "y", "p", "e">>, <<"s", "t", "y", "l", "e">>,
    <<"n", "a", "m", "e">>, <<"v", "a", "l", "u", "e">>,
    <<"o", "n", "C", "l", "i", "c", "k">>,
    <<"o", "n", "C", "h", "a", "n", "g", "e">>,
    <<"o", "n", "S", "u", "b", "m", "i", "t">>, <<"s", "r", "c">>,
    <<"h", "r", "e", "f">>, <<"a", "l", "t">> }

\* text.includes("<") || text.includes("{") || text.includes("}")
LooksLikeJsx(text) ==
  HasChar(text, "<") \/ HasChar(text, "{") \/ HasChar(text, "}")

\* s has, from position i on, one or more white spaces then a word character
SpacesThenWord(s, i) ==
  \E j \in i..(Len(s) - 1) : Stretch(s, i, j, WhiteSpace) /\ s[j + 1] \in WordChar

\* /^no\s+\w+/i
NoPhrase(text) ==
  /\ Len(text) >= 2
  /\ text[1] \in {"n", "N"}
  /\ text[2] \in {"o", "O"}
  /\ SpacesThenWord(text, 3)

\* /^add\s+a\s+\w+/i
AddAPhrase(text) ==
  /\ Len(text) >= 3
  /\ text[1] \in {"a", "A"}
  /\ text[2] \in {"d", "D"}
  /\ text[3] \in {"d", "D"}
  /\ \E j \in 4..(Len(text) - 1) :
       /\ Stretch(text, 4, j, WhiteSpace)
       /\ text[j + 1] \in {"a", "A"}
       /\ SpacesThenWord(text, j + 2)

\* /^total$/i
TotalWord(text) ==
  /\ Len(text) = 5
  /\ text[1] \in {"t", "T"}
  /\ text[2] \in {"o", "O"}
  /\ text[3] \in {"t", "T"}
  /\ text[4] \in {"a", "A"}
  /\ text[5] \in {"l", "L"}

TRACK_YOUR_WORK ==
  <<"t", "r", "a", "c", "k", " ", "y", "o", "u", "r", " ", "w", "o", "r", "k">>

\* the "always consider UI text patterns as translatable" condition
UiPattern(text) ==
  NoPhrase(text) \/ AddAPhrase(text) \/ TotalWord(text)
    \/ Includes(text, TRACK_YOUR_WORK)

\* the last test of the classifier without the flag i
ActualWords_CaseSensitive(text) ==
  \E i \in 1..(Len(text) - 1) :
    /\ text[i] \in Lower
    /\ text[i + 1] \in Lower \cup WhiteSpace

\* /[a-z][a-z\s]+/i
ActualWords(text) ==
  \E i \in 1..(Len(text) - 1) :
    /\ text[i] \in Lower \cup Upper
    /\ text[i + 1] \in Lower \cup Upper \cup WhiteSpace

\* the classifier with the always-accepted UI patterns tested first
ClassifierReturn_OverrideFirst(text) ==
  IF UiPattern(text) THEN "ui-pattern"
  ELSE IF TimeFormat(text) THEN "time"
  ELSE IF DateFormat(text) THEN "date"
  ELSE IF UrlPrefix(text) THEN "url"
  ELSE IF HexColor(text) THEN "hex-color"
  ELSE IF CssClassLike(text) THEN "css-class-like"
  ELSE IF Trim(text) \in commonPropNames THEN "prop-name"
  ELSE IF LooksLikeJsx(text) THEN "jsx"
  ELSE IF ActualWords(text) THEN "words"
  ELSE "no-words"

\* the return statement of isLikelyTranslatableText that the text reaches
ClassifierReturn(text) ==
  IF TimeFormat(text) THEN "time"
  ELSE IF DateFormat(text) THEN "date"
  ELSE IF UrlPrefix(text) THEN "url"
  ELSE IF HexColor(text) THEN "hex-color"
  ELSE IF CssClassLike(text) THEN "css-class-like"
  ELSE IF Trim(text) \in commonPropNames THEN "prop-name"
  ELSE IF LooksLikeJsx(text) THEN "jsx"
  ELSE IF UiPattern(text) THEN "ui-pattern"
  ELSE IF ActualWords(text) THEN "words"
  ELSE "no-words"

isLikelyTranslatableText(text) ==
  ClassifierReturn(text) \in {"ui-pattern", "words"}

RECURSIVE searchForValue(_, _, _, _)
\* the paths pushed to matchingKeys by the entries i.. of one object
searchForValue(ents, i, path, text) ==
  IF i > Len(ents) THEN <<>>
  ELSE LET key == ents[i].k
           value == ents[i].v
           currentPath == IF path # <<>> THEN DotConcat(path, key) ELSE key
       IN (IF TypeOf(value) = "string" /\ Trim(value.s) = Trim(text)
             THEN <<currentPath>>
           ELSE IF TypeOf(value) = "object"
             THEN searchForValue(value.ents, 1, currentPath, text)
           ELSE <<>>)
          \o searchForValue(ents, i + 1, path, text)

textExistsInTranslations(tr, text) ==
  LET referenceLang == ReferenceLang(tr)
      tree == GetProp(tr, referenceLang)
      \* Object.entries(undefined) throws and the catch answers "not found"
      matchingKeys == IF tree = Undefined THEN <<>>
                      ELSE searchForValue(tree.ents, 1, <<>>, text)
  IN [existsInTranslations |-> Len(matchingKeys) > 0,
      translationKeys |-> matchingKeys]

NoHover(reason) == [hover |-> "none", reason |-> reason, keys |-> <<>>]

\* the hover provider of the text highlighter, from the text of the range on
provideHover(tr, text) ==
  LET cleanText == cleanStringLiteral(text)
  IN IF Trim(cleanText) = <<>> THEN NoHover("empty")
     ELSE IF Len(cleanText) <= 1 THEN NoHover("single-character")
     ELSE IF ~isLikelyTranslatableText(cleanText)
       THEN NoHover(ClassifierReturn(cleanText))
     ELSE LET found == textExistsInTranslations(tr, cleanText)
          IN [hover |-> IF found.existsInTranslations THEN "existing"
                        ELSE "untranslated",
              reason |-> ClassifierReturn(cleanText),
              keys |-> found.translationKeys]

(***************************************************************************)
(* Key Suggester                                                           *)
(***************************************************************************)
UpperLetters ==
  <<"A", "B", "C", "D", "E", "F", "G", "H", "I", "J", "K", "L", "M",
    "N", "O", "P", "Q", "R", "S", "T", "U", "V", "W", "X", "Y", "Z">>
LowerLetters ==
  <<"a", "b", "c", "d", "e", "f", "g", "h", "i", "j", "k", "l", "m",
    "n", "o", "p", "q", "r", "s", "t", "u", "v", "w", "x", "y", "z">>

\* String.prototype.toLowerCase
toLowerCase(s) ==
  [i \in 1..Len(s) |->
     IF s[i] \in Upper
       THEN LowerLetters[CHOOSE n \in 1..26 : UpperLetters[n] = s[i]]
       ELSE s[i]]

\* a regular expression made of literal characters, under the i flag
IncludesIgnoreCase(text, literal) == Includes(toLowerCase(text), literal)

\* the literal stands in s from position i on
MatchAt(s, i, literal) ==
  /\ i + Len(literal) - 1 <= Len(s)
  /\ SubSeq(s, i, i + Len(literal) - 1) = literal

\* what '.' does not match
LineTerminator == {"\n", "\r"}

NO_SP == <<"n", "o", " ">>
SP_FOUND == <<" ", "f", "o", "u", "n", "d">>
SP_ENTRIES == <<" ", "e", "n", "t", "r", "i", "e", "s">>
ADD_NEW == <<"a", "d", "d", " ", "n", "e", "w">>
ADD_A_NEW == <<"a", "d", "d", " ", "a", " ", "n", "e", "w">>
TIME_ENTRY_PHRASE == <<"t", "i", "m", "e", " ", "e", "n", "t", "r", "y">>
TOTAL == <<"t", "o", "t", "a", "l">>
TIME_ENTRIE == <<"t", "i", "m", "e", " ", "e", "n", "t", "r", "i", "e">>

\* /no .+ (found|entries)/i
NoFoundRule(text) ==
  LET t == toLowerCase(text)
  IN \E i \in 1..Len(t), j \in 1..Len(t) :
       /\ MatchAt(t, i, NO_SP)
       /\ j >= i + 4
       /\ \A k \in (i + 3)..(j - 1) : t[k] \notin LineTerminator
       /\ MatchAt(t, j, SP_FOUND) \/ MatchAt(t, j, SP_ENTRIES)

\* /add( a)? new/i
AddNewRule(text) ==
  IncludesIgnoreCase(text, ADD_NEW) \/ IncludesIgnoreCase(text, ADD_A_NEW)

\* /track your work/i.test(text) || /time entry/i.test(text)
TrackRule(text) ==
  IncludesIgnoreCase(text, TRACK_YOUR_WORK)
    \/ IncludesIgnoreCase(text, TIME_ENTRY_PHRASE)

\* /total/i
TotalRule(text) == IncludesIgnoreCase(text, TOTAL)

\* /time entries?/i
TimeEntriesRule(text) == IncludesIgnoreCase(text, TIME_ENTRIE)

KEY_NO_ENTRIES ==
  <<"t", "i", "m", "e", "E", "n", "t", "r", "y", ".", "n", "o", "E", "n",
    "t", "r", "i", "e", "s">>
KEY_ADD_NEW_ENTRY ==
  <<"t", "i", "m", "e", "E", "n", "t", "r", "y", ".", "a", "d", "d", "N",
    "e", "w", "E", "n", "t", "r", "y">>
KEY_ADD_NEW_ENTRY_PROMPT ==
  <<"t", "i", "m", "e", "E", "n", "t", "r", "y", ".", "a", "d", "d", "N",
    "e", "w", "E", "n", "t", "r", "y", "P", "r", "o", "m", "p", "t">>
KEY_TOTAL ==
  <<"g", "e", "n", "e", "r", "a", "l", ".", "t", "o", "t", "a", "l">>
KEY_ENTRIES ==
  <<"t", "i", "m", "e", "E", "n", "t", "r", "y", ".", "e", "n", "t", "r",
    "i", "e", "s">>
UI_DOT == <<"u", "i", ".">>

\* .replace(/[^\w\s]/g, "")
RemoveSpecialChars(s) ==
  LET Keep(c) == c \in WordChar \cup WhiteSpace
  IN SelectSeq(s, Keep)

RECURSIVE SpacesToDots(_)
\* .replace(/\s+/g, ".")
SpacesToDots(s) ==
  IF s = <<>> THEN <<>>
  ELSE IF s[1] \in WhiteSpace THEN <<DOT>> \o SpacesToDots(TrimStart(s))
  ELSE <<s[1]>> \o SpacesToDots(Tail(s))

\* "convert to camelCase and clean up"
CleanText(text) == SpacesToDots(RemoveSpecialChars(toLowerCase(Trim(text))))

\* the default key without the cut to three words
DefaultKey_Whole(text) == UI_DOT \o CleanText(text)

\* "default: use a shortened version of the text"
DefaultKey(text) ==
  LET cleanText == CleanText(text)
      words == Split(cleanText)
  IN IF Len(words) > 3 THEN UI_DOT \o Join(SubSeq(words, 1, 3))
     ELSE UI_DOT \o cleanText

suggestTranslationKey_TotalFirst(text) ==
  IF TotalRule(text) THEN KEY_TOTAL
  ELSE IF NoFoundRule(text) THEN KEY_NO_ENTRIES
  ELSE IF AddNewRule(text) THEN KEY_ADD_NEW_ENTRY
  ELSE IF TrackRule(text) THEN KEY_ADD_NEW_ENTRY_PROMPT
  ELSE IF TimeEntriesRule(text) THEN KEY_ENTRIES
  ELSE DefaultKey(text)

suggestTranslationKey(text) ==
  IF NoFoundRule(text) THEN KEY_NO_ENTRIES
  ELSE IF AddNewRule(text) THEN KEY_ADD_NEW_ENTRY
  ELSE IF TrackRule(text) THEN KEY_ADD_NEW_ENTRY_PROMPT
  ELSE IF TotalRule(text) THEN KEY_TOTAL
  ELSE IF TimeEntriesRule(text) THEN KEY_ENTRIES
  ELSE DefaultKey(text)

(***************************************************************************)
(* The highlighter's hover applied to loaded dictionaries                  *)
(***************************************************************************)
MaxTextLen == 2

Alphabet == {"a", "A", "1", "-", "_", " "}

ShortTexts == UNION { [1..n -> Alphabet] : n \in 0..MaxTextLen }

AA == <<"a", "a">>
BTN_PRIMARY == <<"b", "t", "n", "-", "p", "r", "i", "m", "a", "r", "y">>
SIGN_UP == <<"S", "i", "g", "n", "-", "U", "p">>
NO_TIME_ENTRIES_FOUND ==
  <<"N", "o", " ", "t", "i", "m", "e", " ", "e", "n", "t", "r", "i", "e", "s",
    " ", "f", "o", "u", "n", "d">>
TIME_ENTRY == <<"t", "i", "m", "e", "E", "n", "t", "r", "y">>
NO_ENTRIES == <<"n", "o", "E", "n", "t", "r", "i", "e", "s">>

ExampleTexts ==
  { BTN_PRIMARY, SIGN_UP, NO_TIME_ENTRIES_FOUND,
    <<"'">> \o NO_TIME_ENTRIES_FOUND \o <<" ", "'">>,
    <<"a", "-", "\t", "b">>, <<"a", "_", "b">>, <<"1", "2", "-", "1", "-", "2", "0">>,
    <<"1", "2", ":", "3", "0">>, <<"#", "f", "f", "f">>,
    <<"h", "t", "t", "p", "-", "x">>, <<"{", "a", "a", "}">>,
    <<"t", "y", "p", "e">>, <<"T", "o", "t", "a", "l">>, <<"a", " ", "a">> }

Texts == ShortTexts \cup ExampleTexts

TimeEntryTree ==
  Obj(<<Prop(TIME_ENTRY,
             Obj(<<Prop(NO_ENTRIES, Str(NO_TIME_ENTRIES_FOUND))>>))>>)

\* what findTranslationFiles has loaded
ClassifierDictionaries ==
  { EmptyObject,
    Obj(<<Prop(EN, EmptyObject)>>),
    Obj(<<Prop(EN, TimeEntryTree)>>),
    Obj(<<Prop(EN, Obj(<<Prop(A, Str(AA)),
                         Prop(B, Obj(<<Prop(X, Str(<<" ">> \o AA \o <<" ">>)),
                                       Prop(Y, Str(<<"a", " ", "a">>))>>))>>))>>),
    Obj(<<Prop(EN, Obj(<<Prop(A, Str(<<"A", "a">>)), Prop(B, Str(AA)),
                         Prop(AB, Str(AA))>>))>>),
    Obj(<<Prop(NL, Obj(<<Prop(A, Str(AA))>>)),
          Prop(EN, Obj(<<Prop(B, Str(AA))>>))>>),
    Obj(<<Prop(NL, Obj(<<Prop(A, Str(AA))>>)),
          Prop(<<"f", "r">>, Obj(<<Prop(B, Str(AA))>>))>>),
    Obj(<<Prop(NL, TimeEntryTree)>>) }

InitClassifier ==
  /\ obj = EmptyObject
  /\ translations \in ClassifierDictionaries
  /\ call = NoCall
  /\ files = NoFiles
  /\ tasks = NoTasks
  /\ editor = NoEditor

ProvideHover(text) ==
  /\ call' = [fn |-> "provideHover", text |-> text,
              ret |-> provideHover(translations, text)]
  /\ UNCHANGED <<obj, translations, files, tasks, editor>>

NextClassifier == \E text \in Texts : ProvideHover(text)

SpecClassifier == InitClassifier /\ [][NextClassifier]_vars

(***************************************************************************)
(* Claims on the text classifier                                           *)
(***************************************************************************)
\* a hover whose text came to the CSS-class rule of the classifier
ReachedCssRule ==
  /\ call.fn = "provideHover"
  /\ call.ret.reason \notin {"empty", "single-character", "time", "date",
                             "url", "hex-color"}

RejectedAsCssClass == call.ret.hover = "none" /\ call.ret.reason = "css-class-like"

\* C9 as stated: "btn-primary" is rejected as CSS-class-like, and the rule
\* rejects a text exactly when it is made of lowercase letters, digits and
\* hyphens only, with a hyphen and without a space
C9_Original ==
  ReachedCssRule =>
    LET text == cleanStringLiteral(call.text)
    IN /\ text = BTN_PRIMARY => RejectedAsCssClass
       /\ RejectedAsCssClass <=>
            /\ \A i \in 1..Len(text) : text[i] \in Lower \cup Digit \cup {"-"}
            /\ \E i \in 1..Len(text) : text[i] = "-"
            /\ \A i \in 1..Len(text) : text[i] # " "

\* C9 amended: "btn-primary" is rejected as CSS-class-like, and the rule
\* rejects a text exactly when it is made of letters of either case, digits,
\* hyphens, underscores and white space only, with a hyphen and without a
\* space character; "Sign-Up" is rejected by it
C9_CssRuleAnyCase ==
  ReachedCssRule =>
    LET text == cleanStringLiteral(call.text)
    IN /\ text \in {BTN_PRIMARY, SIGN_UP} => RejectedAsCssClass
       /\ RejectedAsCssClass <=>
            /\ \A i \in 1..Len(text) :
                 text[i] \in Lower \cup Upper \cup Digit \cup {"-", "_"}
                               \cup WhiteSpace
            /\ \E i \in 1..Len(text) : text[i] = "-"
            /\ \A i \in 1..Len(text) : text[i] # " "

\* a text with an uppercase letter was rejected by the CSS-class rule
C9_Witness ==
  /\ ReachedCssRule
  /\ RejectedAsCssClass
  /\ \E i \in 1..Len(call.text) : call.text[i] \in Upper

ClassifierNames == {A, B, AB, X, Y, TIME_ENTRY, NO_ENTRIES}

ClassifierPaths ==
  UNION { {Join(segs) : segs \in [1..n -> ClassifierNames]} : n \in 1..2 }

\* the tree of "en" when loaded, otherwise of the first language loaded
EnOrFirstTree ==
  IF \E i \in 1..Len(translations.ents) : translations.ents[i].k = EN
    THEN translations.ents[CHOOSE i \in 1..Len(translations.ents) :
                             translations.ents[i].k = EN].v
  ELSE IF Len(translations.ents) > 0 THEN translations.ents[1].v
  ELSE EmptyObject

\* the dot-paths of a tree whose leaf equals the text, both trimmed
PathsWithValue(tree, text) ==
  { p \in ClassifierPaths :
      LET leaf == StrictWalk(tree, Split(p), 1)
      IN leaf.tag = "string" /\ Trim(leaf.s) = Trim(text) }

\* C10: for a text accepted as translatable the lookup lists every dot-path of
\* the "en" tree (else of the first loaded tree) whose leaf equals the text,
\* both trimmed, each once; the text is 'existing' iff the list is not empty;
\* "No time entries found" gives ["timeEntry.noEntries"]
C10_ExistenceLookup ==
  (call.fn = "provideHover" /\ call.ret.hover # "none") =>
    LET text == cleanStringLiteral(call.text)
        keys == call.ret.keys
    IN /\ Range(keys) = PathsWithValue(EnOrFirstTree, text)
       /\ \A i, j \in 1..Len(keys) : keys[i] = keys[j] => i = j
       /\ call.ret.hover = "existing" <=> keys # <<>>
       /\ (text = NO_TIME_ENTRIES_FOUND
             /\ EnOrFirstTree = TimeEntryTree) =>
            /\ keys = <<Join(<<TIME_ENTRY, NO_ENTRIES>>)>>
            /\ call.ret.hover = "existing"

\* "en" was loaded second and the text was found under it
C10_Witness ==
  /\ call.fn = "provideHover"
  /\ call.ret.hover = "existing"
  /\ Len(translations.ents) = 2
  /\ translations.ents[2].k = EN
  /\ call.ret.keys = <<B>>

\* the example of C10 has run
C10_ExampleReached ==
  /\ call.fn = "provideHover"
  /\ cleanStringLiteral(call.text) = NO_TIME_ENTRIES_FOUND
  /\ translations = Obj(<<Prop(EN, TimeEntryTree)>>)
  /\ call.ret.hover = "existing"

\* one text found under several keys, one of them with spaces around the value
C10_SeveralKeys ==
  /\ call.fn = "provideHover"
  /\ Len(call.ret.keys) = 2
  /\ call.ret.keys[2] = Join(<<B, X>>)

(***************************************************************************)
(* The key suggester applied to texts                                      *)
(***************************************************************************)
MaxWords == 3

SuggestWords ==
  { <<"N", "o">>, <<"f", "o", "u", "n", "d">>,
    <<"e", "n", "t", "r", "i", "e", "s">>, <<"A", "d", "d", " ", "a">>,
    <<"n", "e", "w">>, <<"t", "i", "m", "e">>, <<"e", "n", "t", "r", "y">>,
    <<"T", "o", "t", "a", "l">> }

RECURSIVE JoinWith(_, _)
JoinWith(words, sep) ==
  IF words = <<>> THEN <<>>
  ELSE IF Len(words) = 1 THEN words[1]
  ELSE words[1] \o sep \o JoinWith(Tail(words), sep)

ADD_A_NEW_ENTRY ==
  <<"A", "d", "d", " ", "a", " ", "n", "e", "w", " ", "e", "n", "t", "r",
    "y">>
HELLO_WORLD ==
  <<"H", "e", "l", "l", "o", ",", " ", "W", "o", "r", "l", "d", "!">>
A_B_C_D ==
  <<"a", " ", "b", " ", "-", " ", "c", " ", " ", "d", " ", "e">>

SuggestTexts ==
  UNION { {JoinWith(ws, <<" ">>) : ws \in [1..n -> SuggestWords]} :
          n \in 0..MaxWords }
    \cup { ADD_A_NEW_ENTRY, NO_TIME_ENTRIES_FOUND, HELLO_WORLD, A_B_C_D,
           <<"T", "r", "a", "c", "k", " ">> \o SubSeq(TRACK_YOUR_WORK, 7, 15),
           <<"N", "o", "\n", "x", " ", "f", "o", "u", "n", "d">> }

\* the editor holds the text that the translateText command is run on
InitSuggester ==
  /\ obj = EmptyObject
  /\ translations = EmptyObject
  /\ call = NoCall
  /\ files = NoFiles
  /\ tasks = NoTasks
  /\ editor \in {[open |-> TRUE, text |-> text] : text \in SuggestTexts}

\* translateTextAtRange: let suggestedKey = suggestTranslationKey(text)
SuggestTranslationKey ==
  /\ call' = [fn |-> "suggestTranslationKey", text |-> editor.text,
              ret |-> suggestTranslationKey(editor.text)]
  /\ UNCHANGED <<obj, translations, files, tasks, editor>>

NextSuggester == SuggestTranslationKey

SpecSuggester == InitSuggester /\ [][NextSuggester]_vars

(***************************************************************************)
(* Claims on the key suggester                                             *)
(***************************************************************************)
\* the override rules in their priority order: does the rule match, its key
OverrideRules(text) ==
  << <<NoFoundRule(text), KEY_NO_ENTRIES>>,
     <<AddNewRule(text), KEY_ADD_NEW_ENTRY>>,
     <<TrackRule(text), KEY_ADD_NEW_ENTRY_PROMPT>>,
     <<TotalRule(text), KEY_TOTAL>>,
     <<TimeEntriesRule(text), KEY_ENTRIES>> >>

\* C11: suggestTranslationKey returns the key of the first override rule, in
\* the one fixed order, that matches the text, and a generic "ui." slug only
\* when no rule matches; "Add a new entry" gives timeEntry.addNewEntry and
\* "No time entries found" gives timeEntry.noEntries
C11_FirstRuleWins ==
  call.fn = "suggestTranslationKey" =>
    LET rules == OverrideRules(call.text)
        matching == {i \in 1..Len(rules) : rules[i][1]}
    IN /\ matching # {} =>
            call.ret = rules[CHOOSE i \in matching :
                               \A j \in matching : i <= j][2]
       /\ matching = {} => StartsWith(call.ret, UI_DOT)
       /\ call.text = ADD_A_NEW_ENTRY => call.ret = KEY_ADD_NEW_ENTRY
       /\ call.text = NO_TIME_ENTRIES_FOUND => call.ret = KEY_NO_ENTRIES

\* a text that a later rule matches as well got the key of the earlier rule
C11_Witness ==
  /\ call.fn = "suggestTranslationKey"
  /\ AddNewRule(call.text)
  /\ TotalRule(call.text)
  /\ call.ret = KEY_ADD_NEW_ENTRY

\* the examples of C11 have run
C11_ExampleReached ==
  /\ call.fn = "suggestTranslationKey"
  /\ call.text = ADD_A_NEW_ENTRY

\* a text that no override rule matches was given a key
SuggestedByDefault ==
  /\ call.fn = "suggestTranslationKey"
  /\ \A i \in 1..Len(OverrideRules(call.text)) :
       ~OverrideRules(call.text)[i][1]

\* s with every white space run replaced by one "."
RunsToDots(s) ==
  LET FirstOfRun(i) ==
        s[i] \notin WhiteSpace \/ i = 1 \/ s[i - 1] \notin WhiteSpace
      kept == SelectSeq([i \in 1..Len(s) |-> i], FirstOfRun)
  IN [n \in 1..Len(kept) |->
        IF s[kept[n]] \in WhiteSpace THEN DOT ELSE s[kept[n]]]

\* the slug: the text trimmed, lowercased, without punctuation, each white
\* space run replaced by one "."
Slug(text) ==
  LET lowered == toLowerCase(Trim(text))
      NotPunctuation(c) == c \in WordChar \cup WhiteSpace
  IN RunsToDots(SelectSeq(lowered, NotPunctuation))

UI_A_B_C == <<"u", "i", ".", "a", ".", "b", ".", "c">>

\* C23: when no override rule matches, the key is "ui." and the slug when
\* the slug has at most 3 segments, "ui." and the first 3 segments of the
\* slug when it has more: the key never has more than 4 segments
C23_DefaultSlug ==
  SuggestedByDefault =>
    LET slug == Slug(call.text)
        segments == Split(slug)
    IN /\ Len(segments) <= 3 => call.ret = UI_DOT \o slug
       /\ Len(segments) > 3 =>
            call.ret = UI_DOT \o Join(SubSeq(segments, 1, 3))
       /\ Len(Split(call.ret)) <= 4
       /\ call.text = A_B_C_D => call.ret = UI_A_B_C

\* a text of five words, with punctuation and a run of two spaces, was cut
\* to three segments
C23_Witness ==
  /\ SuggestedByDefault
  /\ call.text = A_B_C_D
  /\ Len(Split(Slug(call.text))) = 5
  /\ call.ret = UI_A_B_C

\* a slug of at most three segments was kept whole
C23_WholeSlug ==
  /\ SuggestedByDefault
  /\ call.text = HELLO_WORLD
  /\ Len(Split(call.ret)) = 3

(***************************************************************************)
(* The classifier applied to phrases                                       *)
(***************************************************************************)
\* the words of one phrase
MaxTokens == 2

Tokens ==
  { <<"N", "o">>,
    <<"N", "O">>,
    <<"a", "d", "d">>,
    <<"a">>,
    <<"T", "o", "t", "a", "l">>,
    <<"t", "o", "t", "a", "l">>,
    <<"i", "t", "e", "m", "s">>,
    <<"{", "c", "o", "u", "n", "t", "}">>,
    <<"<", "b", ">">>,
    <<"x", "-", "y">>,
    <<"h", "t", "t", "p">>,
    <<"t", "y", "p", "e">>,
    <<"1">>,
    <<"#", "f", "f", "f">>,
    <<"1", "2", ":", "3", "0">>,
    <<"t", "r", "a", "c", "k", " ", "y", "o", "u", "r", " ", "w", "o", "r",
      "k">> }

NO_COUNT_ITEMS ==
  <<"N", "o", " ", "{", "c", "o", "u", "n", "t", "}", " ", "i", "t", "e",
    "m", "s">>
NO_TAB_CLASS ==
  <<"n", "o", "\t", "a", "-", "b">>
NO_ITEMS_COUNT ==
  <<"N", "o", " ", "i", "t", "e", "m", "s", " ", "{", "c", "o", "u", "n", "t",
    "}">>

ADD_A_ONE == <<"A", "D", "D", " ", "A", " ", "1">>

Phrases ==
  { JoinWith(ws, <<" ">>) :
      ws \in UNION { [1..n -> Tokens] : n \in 1..MaxTokens } }
    \cup {<<>>, NO_COUNT_ITEMS, NO_TAB_CLASS, NO_ITEMS_COUNT, ADD_A_ONE}

InitPhrases ==
  /\ obj = EmptyObject
  /\ translations = EmptyObject
  /\ call = NoCall
  /\ files = NoFiles
  /\ tasks = NoTasks
  /\ editor \in {[open |-> TRUE, text |-> text] : text \in Phrases}

\* isLikelyTranslatableText(text), with the return statement it reached
IsLikelyTranslatableText ==
  /\ call.fn = "none"
  /\ call' = [fn |-> "isLikelyTranslatableText", text |-> editor.text,
              reached |-> ClassifierReturn(editor.text),
              ret |-> isLikelyTranslatableText(editor.text)]
  /\ UNCHANGED <<obj, translations, files, tasks, editor>>

NextPhrases == IsLikelyTranslatableText

SpecPhrases == InitPhrases /\ [][NextPhrases]_vars

(***************************************************************************)
(* Claims on the filter chain of the classifier                            *)
(***************************************************************************)
Classified == call.fn = "isLikelyTranslatableText"

\* the time, date, URL, hex colour and CSS class patterns
StructuralPattern(text) ==
  \/ TimeFormat(text)
  \/ DateFormat(text)
  \/ UrlPrefix(text)
  \/ HexColor(text)
  \/ CssClassLike(text)

Rejectable(text) ==
  \/ StructuralPattern(text)
  \/ Trim(text) \in commonPropNames
  \/ LooksLikeJsx(text)

\* C22 as stated: rejection comes before the positive override: a text that
\* matches a structural pattern or the deny-list, or contains '<', '{' or
\* '}', is never classified translatable, whatever its UI-phrase shape; "No
\* {count} items" has such a shape and is not translatable
C22_Original ==
  Classified =>
    /\ Rejectable(call.text) => ~call.ret
    /\ call.text = NO_COUNT_ITEMS => UiPattern(call.text) /\ ~call.ret

\* C22 amended: the same, with "No items {count}" for the text that has an
\* always-accepted shape; "No {count} items" is not translatable either, but
\* has no such shape
C22_RejectionBeforeOverride ==
  Classified =>
    /\ Rejectable(call.text) => ~call.ret
    /\ call.text = NO_ITEMS_COUNT => UiPattern(call.text) /\ ~call.ret
    /\ call.text = NO_COUNT_ITEMS => ~UiPattern(call.text) /\ ~call.ret

\* "No items {count}" has the shape of an always-accepted phrase and was
\* rejected for its braces
C22_Witness ==
  /\ Classified
  /\ call.text = NO_ITEMS_COUNT
  /\ UiPattern(call.text)
  /\ call.reached = "jsx"
  /\ ~call.ret

\* an always-accepted shape rejected by a structural pattern: the CSS class
\* rule, the white space being a tab
C22_StructuralOverShape ==
  /\ Classified
  /\ UiPattern(call.text)
  /\ call.reached = "css-class-like"
  /\ ~call.ret

\* the verdict of the classifier with its positive-override step taken out
WithoutOverride(text) ==
  /\ ~Rejectable(text)
  /\ ActualWords(text)

\* C30: the positive override is redundant: every text that reaches it gets
\* the same verdict with and without it, since every override shape has a
\* letter followed by a letter or a white space
C30_OverrideRedundant ==
  Classified =>
    /\ call.ret = WithoutOverride(call.text)
    /\ call.reached = "ui-pattern" => ActualWords(call.text)

\* a phrase in capitals was accepted by the override
C30_Witness ==
  /\ Classified
  /\ call.reached = "ui-pattern"
  /\ call.ret
  /\ call.text[1] = "N"
  /\ call.text[2] = "O"

\* each override shape was accepted: no + word, add a + word, total, and the
\* notable phrase
C30_TotalAccepted ==
  Classified /\ call.reached = "ui-pattern" /\ TotalWord(call.text)

C30_AddAAccepted ==
  Classified /\ call.reached = "ui-pattern" /\ AddAPhrase(call.text)

C30_NotablePhraseAccepted ==
  /\ Classified
  /\ call.reached = "ui-pattern"
  /\ Includes(call.text, TRACK_YOUR_WORK)
  /\ ~NoPhrase(call.text)

(***************************************************************************)
(* Dictionary Loader                                                       *)
(***************************************************************************)
\* the content of a workspace file: no such file, a text that is not JSON, or
\* the text of a JSON value
Absent == [kind |-> "absent"]
Malformed == [kind |-> "malformed"]
Json(value) == [kind |-> "json", value |-> value]

\* "common paths for translation files", below the workspace root
possiblePaths ==
  << "messages/en.json", "messages/nl.json", "locales/en.json",
     "locales/nl.json", "public/locales/en/common.json",
     "src/messages/en.json", "src/messages/nl.json", "src/locales/en.json",
     "src/locales/nl.json" >>

\* the other .json files of the workspace, which findFiles("**/*.json") lists
ScanPaths == {"i18n/en.json", "lang/en.json", "package.json"}

WorkspacePaths == {possiblePaths[i] : i \in 1..Len(possiblePaths)} \cup ScanPaths

PACKAGE ==
  <<"p", "a", "c", "k", "a", "g", "e">>

\* path.basename(filePath, ".json")
basename(filePath) ==
  IF filePath \in {"messages/en.json", "locales/en.json",
                   "src/messages/en.json", "src/locales/en.json",
                   "i18n/en.json", "lang/en.json"} THEN EN
  ELSE IF filePath \in {"messages/nl.json", "locales/nl.json",
                        "src/messages/nl.json", "src/locales/nl.json"} THEN NL
  ELSE IF filePath = "public/locales/en/common.json" THEN COMMON
  ELSE PACKAGE

\* fs.existsSync
existsSync(fs, filePath) == fs[filePath].kind # "absent"

SyntaxError == [tag |-> "SyntaxError"]

\* JSON.parse of a file's content
JSONparse(content) ==
  IF content.kind = "json" THEN content.value ELSE SyntaxError

\* a file path held as a property value
PathValue(filePath) == [tag |-> "string", path |-> filePath]

\* a heuristic without the test for a nested value
hasNestedStructure_Always(o) == o.tag = "object"

hasNestedStructure(o) ==
  /\ o.tag = "object"
  /\ \E i \in 1..Len(o.ents) : o.ents[i].v.tag = "object"

GENERAL ==
  <<"g", "e", "n", "e", "r", "a", "l">>
BUTTONS ==
  <<"b", "u", "t", "t", "o", "n", "s">>
FORMS ==
  <<"f", "o", "r", "m", "s">>
NAVIGATION ==
  <<"n", "a", "v", "i", "g", "a", "t", "i", "o", "n">>
ERRORS ==
  <<"e", "r", "r", "o", "r", "s">>

commonKeys == {COMMON, GENERAL, BUTTONS, FORMS, NAVIGATION, ERRORS, TIME_ENTRY}

hasCommonTranslationKeys(o) ==
  /\ o.tag = "object"
  /\ \E i \in 1..Len(o.ents) : o.ents[i].k \in commonKeys

\* the locals of findTranslationFiles, and whether it has thrown
Loading(tr, paths, found) ==
  [threw |-> FALSE, translations |-> tr, translationFilePaths |-> paths,
   translationFilesFound |-> found]

Thrown(error) ==
  [threw |-> TRUE, error |-> error, translations |-> EmptyObject,
   translationFilePaths |-> EmptyObject, translationFilesFound |-> FALSE]

RECURSIVE ConventionalPass(_, _, _)
\* for (const filePath of possiblePaths): JSON.parse is not inside a try
ConventionalPass(fs, i, acc) ==
  IF i > Len(possiblePaths) THEN acc
  ELSE LET filePath == possiblePaths[i]
       IN IF existsSync(fs, filePath)
            THEN LET lang == basename(filePath)
                     json == JSONparse(fs[filePath])
                 IN IF json = SyntaxError THEN Thrown("SyntaxError")
                    ELSE ConventionalPass(fs, i + 1,
                           Loading(PutProp(acc.translations, lang, json),
                                   PutProp(acc.translationFilePaths, lang,
                                           PathValue(filePath)),
                                   TRUE))
            ELSE ConventionalPass(fs, i + 1, acc)

RECURSIVE ScanPass(_, _, _, _)
\* for (const file of files): try { ... } catch (e) { }
ScanPass(fs, found, i, acc) ==
  IF i > Len(found) THEN acc
  ELSE LET file == found[i]
           json == JSONparse(fs[file])
       IN IF json # SyntaxError /\ hasNestedStructure(json)
               /\ hasCommonTranslationKeys(json)
            THEN LET lang == basename(file)
                 IN ScanPass(fs, found, i + 1,
                      Loading(PutProp(acc.translations, lang, json),
                              PutProp(acc.translationFilePaths, lang,
                                      PathValue(file)),
                              TRUE))
            ELSE ScanPass(fs, found, i + 1, acc)

\* what vscode.workspace.findFiles("**/*.json", ...) may return: the .json
\* files of the workspace, in an order the API leaves open
findFiles(fs) ==
  LET present == {p \in WorkspacePaths : existsSync(fs, p)}
  IN Arrangements(present, Cardinality(present))

\* found is the list that findFiles returned
findTranslationFiles(fs, found) ==
  IF fs = NoFiles THEN Thrown("No workspace folder open")
  ELSE LET conventional ==
             ConventionalPass(fs, 1, Loading(EmptyObject, EmptyObject, FALSE))
       IN IF conventional.threw THEN conventional
          ELSE IF ~conventional.translationFilesFound
            THEN ScanPass(fs, found, 1, conventional)
          ELSE conventional

RECURSIVE LookUpAll(_, _, _, _)
\* for (const [lang, content] of Object.entries(translations)): the values
\* found (results) and the languages without one (missingInLangs)
LookUpAll(tr, translationKey, i, acc) ==
  IF i > Len(tr.ents) THEN acc
  ELSE LET lang == tr.ents[i].k
           value == getNestedProperty(tr.ents[i].v, translationKey)
       IN LookUpAll(tr, translationKey, i + 1,
            IF value # Undefined
              THEN [acc EXCEPT !.results = Append(@, [lang |-> lang,
                                                      value |-> value])]
              ELSE [acc EXCEPT !.missingInLangs = Append(@, lang)])

\* what a handler shows, by the statement that shows it
Shown(kind, looked) ==
  [shown |-> kind, results |-> looked.results,
   missingInLangs |-> looked.missingInLangs]

NothingLooked == [results |-> <<>>, missingInLangs |-> <<>>]

\* commandHandlers.js showTranslation, from the load on; loaded is what
\* findTranslationFiles gave
showTranslation(loaded, translationKey) ==
  IF loaded.threw THEN Shown("error: Error getting translation", NothingLooked)
  ELSE IF Len(loaded.translations.ents) = 0
    THEN Shown("error: No translation files found", NothingLooked)
  ELSE LET looked == LookUpAll(loaded.translations, translationKey, 1,
                               NothingLooked)
       IN IF Len(looked.results) = 0
            THEN Shown("warning: not found in any language file", looked)
          ELSE IF Len(looked.missingInLangs) > 0
            THEN Shown("information: translations, Missing in", looked)
          ELSE Shown("information: translations", looked)

\* hoverProvider.js provideHover, from the load on
hoverProvideHover(loaded, translationKey) ==
  IF loaded.threw THEN Shown("hover: Error getting translation", NothingLooked)
  ELSE LET looked == LookUpAll(loaded.translations, translationKey, 1,
                               NothingLooked)
       IN IF Len(looked.results) = 0
            THEN Shown("hover: Translation key not found", looked)
          ELSE IF Len(looked.missingInLangs) > 0
            THEN Shown("hover: translations, Missing in", looked)
          ELSE Shown("hover: translations", looked)

(***************************************************************************)
(* The loader and its callers applied to a workspace                       *)
(***************************************************************************)
MaxFiles == 2

FlatTree == Obj(<<Prop(A, Str(X))>>)

FileContents == {Malformed, Json(CommonTree), Json(FlatTree)}

\* the workspaces of at most MaxFiles .json files
Workspaces ==
  UNION { { [p \in WorkspacePaths |-> IF p \in S THEN c[p] ELSE Absent] :
              c \in [S -> FileContents] } :
          S \in {S \in SUBSET WorkspacePaths : Cardinality(S) <= MaxFiles} }

\* the translation key under the cursor
CursorKeys == {Join(<<COMMON, SAVE>>), A}

\* no workspace folder, or a workspace folder and its .json files
InitLoader ==
  /\ obj = EmptyObject
  /\ translations = EmptyObject
  /\ call = NoCall
  /\ files \in {NoFiles} \cup Workspaces
  /\ tasks = NoTasks
  /\ editor \in {[open |-> TRUE, key |-> key] : key \in CursorKeys}

\* findFiles is called, and its list drawn, only when the conventional pass
\* found no file
FoundLists ==
  IF files = NoFiles
       \/ \E i \in 1..Len(possiblePaths) : existsSync(files, possiblePaths[i])
    THEN {<<>>}
    ELSE findFiles(files)

FindTranslationFiles(found) ==
  LET loaded == findTranslationFiles(files, found)
  IN /\ call' = [fn |-> "findTranslationFiles", found |-> found,
                 ret |-> loaded]
     /\ translations' = IF loaded.threw THEN translations
                        ELSE loaded.translations
     /\ UNCHANGED <<obj, files, tasks, editor>>

ShowTranslation(found) ==
  LET loaded == findTranslationFiles(files, found)
  IN /\ call' = [fn |-> "showTranslation", found |-> found, loaded |-> loaded,
                 ret |-> showTranslation(loaded, editor.key)]
     /\ UNCHANGED <<obj, translations, files, tasks, editor>>

HoverProvideHover(found) ==
  LET loaded == findTranslationFiles(files, found)
  IN /\ call' = [fn |-> "hoverProvider.provideHover", found |-> found,
                 loaded |-> loaded,
                 ret |-> hoverProvideHover(loaded, editor.key)]
     /\ UNCHANGED <<obj, translations, files, tasks, editor>>

NextLoader ==
  \/ \E found \in FoundLists : FindTranslationFiles(found)
  \/ \E found \in FoundLists : ShowTranslation(found)
  \/ \E found \in FoundLists : HoverProvideHover(found)

SpecLoader == InitLoader /\ [][NextLoader]_vars

(***************************************************************************)
(* Claims on the loader                                                    *)
(***************************************************************************)
\* the load made by the function or handler last run
LastLoad ==
  IF call.fn = "findTranslationFiles" THEN call.ret ELSE call.loaded

Loaded ==
  /\ call.fn \in {"findTranslationFiles", "showTranslation",
                  "hoverProvider.provideHover"}
  /\ files # NoFiles

ConventionalPaths == {possiblePaths[i] : i \in 1..Len(possiblePaths)}

SomeConventionalExists == \E p \in ConventionalPaths : existsSync(files, p)

\* a scanned file that is a dictionary by the heuristic
QualifiesInScan(p) ==
  /\ files[p].kind = "json"
  /\ hasNestedStructure(files[p].value)
  /\ hasCommonTranslationKeys(files[p].value)

\* the language codes of the files that qualify: in the conventional pass the
\* existing files that parse, in the fallback scan the files that parse and
\* pass the heuristic
QualifyingLangs ==
  IF SomeConventionalExists
    THEN {basename(p) : p \in {p \in ConventionalPaths : files[p].kind = "json"}}
    ELSE {basename(p) : p \in {p \in ScanPaths : QualifiesInScan(p)}}

SomeMalformed == \E p \in WorkspacePaths : files[p] = Malformed

\* C12: a file with malformed JSON is never fatal to loading: the load does
\* not fail, and returns a dictionary for every language that has a
\* qualifying file, in the conventional pass and in the fallback scan
C12_MalformedNeverFatal ==
  (Loaded /\ SomeMalformed) =>
    /\ ~LastLoad.threw
    /\ Range(ObjectKeys(LastLoad.translations)) = QualifyingLangs

\* the same, of the fallback scan alone
C12_FallbackScanOnly ==
  (Loaded /\ SomeMalformed /\ ~SomeConventionalExists) =>
    /\ ~LastLoad.threw
    /\ Range(ObjectKeys(LastLoad.translations)) = QualifyingLangs

\* a malformed file was skipped by the fallback scan, which loaded another
C12_ScanSkipped ==
  /\ Loaded
  /\ SomeMalformed
  /\ ~SomeConventionalExists
  /\ Len(LastLoad.translations.ents) = 1

\* C13: when no file qualifies after both passes, loading fails with
\* NoDictionariesFound instead of returning an empty dictionary set, and the
\* callers report that outcome instead of going on with an empty set
C13_NoDictionariesFound ==
  (Loaded /\ QualifyingLangs = {} /\ ~SomeMalformed) =>
    /\ LastLoad.threw
    /\ LastLoad.error = "NoDictionariesFound"
    /\ call.fn = "showTranslation" =>
         call.ret.shown = "error: No translation files found"
    /\ call.fn = "hoverProvider.provideHover" =>
         call.ret.shown = "error: No translation files found"

\* what the callers do with the empty set: showTranslation reports that no
\* translation file was found
C13_ShowTranslationReports ==
  (call.fn = "showTranslation" /\ files # NoFiles /\ QualifyingLangs = {}
     /\ ~SomeMalformed) =>
    call.ret.shown = "error: No translation files found"

\* the hover goes on with the empty set and finds the key in no language
C13_HoverGoesOn ==
  (call.fn = "hoverProvider.provideHover" /\ files # NoFiles
     /\ QualifyingLangs = {} /\ ~SomeMalformed) =>
    call.ret.shown = "hover: Translation key not found"

\* the files that the loaded paths name
KeptPaths ==
  {LastLoad.translationFilePaths.ents[i].v.path :
     i \in 1..Len(LastLoad.translationFilePaths.ents)}

\* the tree of file p is in the result under the stem of p
ContributesTree(p) ==
  GetProp(LastLoad.translations, basename(p)) = files[p].value

ExistingConventional == {p \in ConventionalPaths : existsSync(files, p)}

\* C24: the fallback scan runs iff no conventional location exists: with
\* none, the qualifying scanned files are loaded; with one or more, the
\* load has a result, no scanned file is in it, and every existing
\* conventional file contributes its tree under the stem of its name
C24_ConventionalElseScan ==
  Loaded =>
    /\ ExistingConventional = {} =>
         /\ ~LastLoad.threw
         /\ \A p \in ScanPaths :
              QualifiesInScan(p) =>
                basename(p) \in Range(ObjectKeys(LastLoad.translations))
    /\ ExistingConventional # {} =>
         /\ ~LastLoad.threw
         /\ KeptPaths \subseteq ConventionalPaths
         /\ \A p \in ExistingConventional :
              files[p].kind = "json" => ContributesTree(p)

\* p is the last existing conventional file of its stem, in candidate order
LastOfStem(p) ==
  \A i, j \in 1..Len(possiblePaths) :
    (/\ possiblePaths[i] = p
     /\ possiblePaths[j] \in ExistingConventional
     /\ basename(possiblePaths[j]) = basename(p)) => j <= i

\* the same when every existing conventional file parses, of the last file
\* of each stem
C24_WhenAllParse ==
  (Loaded /\ \A p \in ExistingConventional : files[p].kind = "json") =>
    /\ ~LastLoad.threw
    /\ ExistingConventional = {} =>
         \A p \in ScanPaths :
           QualifiesInScan(p) =>
             basename(p) \in Range(ObjectKeys(LastLoad.translations))
    /\ ExistingConventional # {} =>
         /\ KeptPaths \subseteq ConventionalPaths
         /\ \A p \in ExistingConventional : LastOfStem(p) => ContributesTree(p)

\* a conventional file and a file that the scan would accept both exist, and
\* only the conventional one was loaded
C24_ScannedFileLeftOut ==
  /\ Loaded
  /\ ~LastLoad.threw
  /\ ExistingConventional # {}
  /\ \E p \in ScanPaths : QualifiesInScan(p)
  /\ Cardinality(KeptPaths) = 1

\* two conventional files of one stem with different trees were loaded
C24_StemClash ==
  /\ Loaded
  /\ ~LastLoad.threw
  /\ \E p, q \in ExistingConventional :
       p # q /\ basename(p) = basename(q) /\ files[p] # files[q]

(***************************************************************************)
(* The fallback scan applied to the .json files outside the conventional   *)
(* locations                                                               *)
(***************************************************************************)
\* one object for top-level value, no section name
NestedOnlyTree == Obj(<<Prop(A, Obj(<<Prop(B, Str(X))>>))>>)
\* a section name, no object for top-level value
CommonOnlyTree == Obj(<<Prop(COMMON, Str(X))>>)
\* a section name whose value is an array
CommonArrayTree == Obj(<<Prop(COMMON, ArrayOf(Str(X)))>>)

ScannedContents ==
  { Absent, Malformed, Json(CommonTree), Json(FlatTree), Json(NestedOnlyTree),
    Json(CommonOnlyTree), Json(CommonArrayTree), Json(Str(COMMON)),
    Json(ArrayOf(CommonTree)) }

\* a workspace folder without any file at a conventional location
InitScan ==
  /\ obj = EmptyObject
  /\ translations = EmptyObject
  /\ call = NoCall
  /\ files \in { [p \in WorkspacePaths |->
                    IF p \in ScanPaths THEN c[p] ELSE Absent] :
                 c \in [ScanPaths -> ScannedContents] }
  /\ tasks = NoTasks
  /\ editor = NoEditor

NextScan == \E found \in FoundLists : FindTranslationFiles(found)

SpecScan == InitScan /\ [][NextScan]_vars

(***************************************************************************)
(* Claims on the fallback scan                                             *)
(***************************************************************************)
Scanned == call.fn = "findTranslationFiles" /\ ExistingConventional = {}

IsJsonObject(v) == v.tag = "object" /\ ~IsArray(v)

HasSectionName(v) == \E i \in 1..Len(v.ents) : v.ents[i].k \in commonKeys

\* a scanned file that no other scanned file shares its stem with
AloneOfStem(p) ==
  \A q \in ScanPaths \ {p} :
    existsSync(files, q) => basename(q) # basename(p)

\* C25 as stated: in the fallback scan a parsed file is accepted iff one or
\* more of its top-level values is an object and one or more of its
\* top-level keys is a section name; a file failing either, or whose content
\* is not a JSON object, contributes nothing and does not abort the scan
C25_Original ==
  Scanned =>
    LET Accepted(p) ==
          /\ files[p].kind = "json"
          /\ IsJsonObject(files[p].value)
          /\ \E i \in 1..Len(files[p].value.ents) :
               IsJsonObject(files[p].value.ents[i].v)
          /\ HasSectionName(files[p].value)
    IN /\ ~LastLoad.threw
       /\ Range(ObjectKeys(LastLoad.translations))
            = {basename(p) : p \in {q \in ScanPaths : Accepted(q)}}
       /\ \A p \in ScanPaths :
            AloneOfStem(p) => (p \in KeptPaths <=> Accepted(p))

\* C25 amended: the same, the top-level value being an object or an array
C25_ScanHeuristic ==
  Scanned =>
    LET Accepted(p) ==
          /\ files[p].kind = "json"
          /\ IsJsonObject(files[p].value)
          /\ \E i \in 1..Len(files[p].value.ents) :
               files[p].value.ents[i].v.tag = "object"
          /\ HasSectionName(files[p].value)
    IN /\ ~LastLoad.threw
       /\ Range(ObjectKeys(LastLoad.translations))
            = {basename(p) : p \in {q \in ScanPaths : Accepted(q)}}
       /\ \A p \in ScanPaths :
            AloneOfStem(p) => (p \in KeptPaths <=> Accepted(p))

\* a scan over a malformed file, a file with a section name and no object,
\* and a dictionary, which alone was loaded
C25_Witness ==
  /\ Scanned
  /\ files["i18n/en.json"] = Malformed
  /\ files["lang/en.json"] = Json(CommonOnlyTree)
  /\ files["package.json"] = Json(CommonTree)
  /\ KeptPaths = {"package.json"}

\* a file whose section is an array was loaded
C25_ArrayValueAccepted ==
  /\ Scanned
  /\ files["package.json"] = Json(CommonArrayTree)
  /\ "package.json" \in KeptPaths

\* an array of dictionaries and a JSON string were scanned and left out
C25_NotAnObjectLeftOut ==
  /\ Scanned
  /\ files["package.json"] = Json(ArrayOf(CommonTree))
  /\ files["lang/en.json"] = Json(Str(COMMON))
  /\ files["i18n/en.json"] = Json(NestedOnlyTree)
  /\ KeptPaths = {}

\* the files that the load reads and keeps, in the order it reads them: the
\* existing conventional files, or else the scanned files that qualify
CandidateFiles ==
  LET Exists(p) == existsSync(files, p)
  IN IF ExistingConventional # {} THEN SelectSeq(possiblePaths, Exists)
     ELSE SelectSeq(call.found, QualifiesInScan)

\* the last candidate file of a stem
LastCandidate(lang) ==
  LET of == {i \in 1..Len(CandidateFiles) : basename(CandidateFiles[i]) = lang}
  IN CandidateFiles[CHOOSE i \in of : \A j \in of : j <= i]

\* C26: after a load the dictionary set holds at most one tree per language
\* code, the tree map and the path map have the same language codes, and
\* when several candidate files share a stem the tree and the path kept for
\* it both come from the last of them in candidate order
C26_OneTreePerLanguage ==
  (Loaded /\ ~LastLoad.threw) =>
    LET trees == LastLoad.translations
        paths == LastLoad.translationFilePaths
    IN /\ \A i, j \in 1..Len(trees.ents) :
            trees.ents[i].k = trees.ents[j].k => i = j
       /\ Range(ObjectKeys(trees)) = Range(ObjectKeys(paths))
       /\ Range(ObjectKeys(trees))
            = {basename(CandidateFiles[i]) : i \in 1..Len(CandidateFiles)}
       /\ \A lang \in Range(ObjectKeys(trees)) :
            /\ GetProp(paths, lang) = PathValue(LastCandidate(lang))
            /\ GetProp(trees, lang) = files[LastCandidate(lang)].value

\* messages/en.json and locales/en.json hold different trees, and the tree
\* and the path of "en" are those of locales/en.json
C26_Witness ==
  /\ Loaded
  /\ ~LastLoad.threw
  /\ files["messages/en.json"] = Json(CommonTree)
  /\ files["locales/en.json"] = Json(FlatTree)
  /\ GetProp(LastLoad.translations, EN) = FlatTree
  /\ GetProp(LastLoad.translationFilePaths, EN) = PathValue("locales/en.json")

\* two scanned dictionaries of one stem, read in the order that findFiles
\* gave: the one read last was kept
C26_ScanOrderDecides ==
  /\ Scanned
  /\ call.found = <<"lang/en.json", "i18n/en.json">>
  /\ files["lang/en.json"] = Json(CommonTree)
  /\ files["i18n/en.json"] = Json(CommonArrayTree)
  /\ GetProp(LastLoad.translations, EN) = CommonArrayTree
  /\ KeptPaths = {"i18n/en.json"}

(***************************************************************************)
(* Add-key commands                                                        *)
(***************************************************************************)
addKeyToTranslationFile_Overwrite(fileContent, key, value) ==
  IF fileContent = Absent THEN [threw |-> TRUE, error |-> "ENOENT"]
  ELSE LET content == JSONparse(fileContent)
       IN IF content = SyntaxError
            THEN [threw |-> TRUE, error |-> "SyntaxError"]
            ELSE [threw |-> FALSE, read |-> content,
                  content |-> setNestedProperty(content, key, value),
                  modified |-> TRUE]

\* addKeyToTranslationFile on the content readFile finds: readFile or
\* JSON.parse throws, or { content, modified } is returned; read is the
\* content as parsed
addKeyToTranslationFile(fileContent, key, value) ==
  IF fileContent = Absent THEN [threw |-> TRUE, error |-> "ENOENT"]
  ELSE LET content == JSONparse(fileContent)
       IN IF content = SyntaxError
            THEN [threw |-> TRUE, error |-> "SyntaxError"]
          ELSE IF getNestedProperty(content, key) # Undefined
            THEN [threw |-> FALSE, read |-> content, content |-> content,
                  modified |-> FALSE]
          ELSE [threw |-> FALSE, read |-> content,
                content |-> setNestedProperty(content, key, value),
                modified |-> TRUE]

\* an invocation of addNewTranslationKey or addMissingTranslations: where it
\* stands (pc names the call it awaits), its arguments and locals, what it
\* did for each language (log) and the messages it has shown
IdleTask == [pc |-> "idle"]

Invoked(handler, translationKey, targets) ==
  [pc |-> "showInputBox", handler |-> handler, key |-> translationKey,
   value |-> <<>>, targets |-> targets, i |-> 1, log |-> <<>>,
   shown |-> <<>>]

\* a command that ended before the loop over the language files
Ended(message) ==
  [pc |-> "done", handler |-> "none", key |-> <<>>, value |-> <<>>,
   targets |-> <<>>, i |-> 1, log |-> <<>>, shown |-> <<message>>]

\* the [lang, filePath] pairs of Object.entries(translationFilePaths)
Targets(translationFilePaths) ==
  [i \in 1..Len(translationFilePaths.ents) |->
     [lang |-> translationFilePaths.ents[i].k,
      filePath |-> translationFilePaths.ents[i].v.path]]

Logged(task, outcome, before, after) ==
  [task EXCEPT !.log = Append(@, [lang |-> task.targets[task.i].lang,
                                  outcome |-> outcome,
                                  before |-> before, after |-> after])]

\* the end of one iteration: the next language, or the closing message
NextLanguage(task) ==
  IF task.i < Len(task.targets)
    THEN [task EXCEPT !.i = @ + 1,
                      !.pc = IF task.handler = "addMissingTranslations"
                               THEN "showInputBox"
                               ELSE "addKeyToTranslationFile"]
    ELSE [task EXCEPT !.pc = "done",
                      !.shown = Append(@, "information: Added")]

Caught_Stops(task, error) ==
  [Logged(task, "failed", Undefined, Undefined) EXCEPT
     !.pc = "done", !.shown = Append(@, "error: Failed to add")]

\* catch (error) inside the loop: the message, then the loop goes on
Caught(task, error) ==
  NextLanguage([Logged(task, "failed", Undefined, Undefined) EXCEPT
                  !.shown = Append(@, "error: Failed to add")])

\* the continuation of await showInputBox, which gives the string typed, or
\* undefined when the box is dismissed
AfterInput(task, input) ==
  IF input = Undefined
    THEN IF task.handler = "addMissingTranslations"
           THEN NextLanguage(Logged(task, "skipped", Undefined, Undefined))
           ELSE [task EXCEPT !.pc = "done"]
    ELSE [task EXCEPT !.value = input.s, !.pc = "addKeyToTranslationFile"]

\* the continuation of await addKeyToTranslationFile(filePath, key, value)
AfterAddKey(task, fileContent) ==
  LET added == addKeyToTranslationFile(fileContent, task.key, Str(task.value))
  IN IF added.threw THEN Caught(task, added.error)
     ELSE IF added.modified
       THEN [task EXCEPT !.pc = "writeToJsonFile"]
              @@ [read |-> added.read, content |-> added.content]
     ELSE NextLanguage(Logged(task, "not modified", added.read, added.content))

\* what writeToJsonFile puts in the file: JSON.stringify(content, null, 2)
Stringified(content) == Json(content)

\* the continuation of await writeToJsonFile(filePath, content)
AfterWrite(task, written) ==
  LET kept == [f \in DOMAIN task \ {"read", "content"} |-> task[f]]
  IN IF written
       THEN NextLanguage(Logged(kept, "written", task.read, task.content))
       ELSE Caught(kept, "EACCES")

(***************************************************************************)
(* The add-key commands run on two language files                          *)
(***************************************************************************)
TaskIds == {"first", "second"}

D == <<"d">>
ONE == <<"1">>
V == <<"v">>

\* { "a": { "b": "x" }, "c": "x" }
AbcTree == Obj(<<Prop(A, Obj(<<Prop(B, Str(X))>>)), Prop(C, Str(X))>>)

MESSAGES_EN == "messages/en.json"
MESSAGES_NL == "messages/nl.json"

LanguageFileContents == {Absent, Malformed, Json(EmptyObject), Json(AbcTree)}

\* the keys asked for: defined in AbcTree, new in a sub-tree, below a leaf,
\* an array index, new at the top
AddKeys == {Join(<<A, B>>), Join(<<A, D>>), Join(<<C, D>>), Join(<<A, ONE>>), D}

AddValues == {V}

\* what showInputBox can resolve to
InputsOf(strings) == {Str(s) : s \in strings} \cup {Undefined}

\* the paths a hover link carries: those of an earlier load
HoverPaths ==
  Obj(<<Prop(EN, PathValue(MESSAGES_EN)), Prop(NL, PathValue(MESSAGES_NL))>>)

InitAddKey ==
  /\ obj = EmptyObject
  /\ translations = EmptyObject
  /\ call = NoCall
  /\ files \in { [p \in WorkspacePaths |->
                    IF p = MESSAGES_EN THEN en
                    ELSE IF p = MESSAGES_NL THEN nl
                    ELSE Absent] :
                 en \in LanguageFileContents, nl \in LanguageFileContents }
  /\ tasks = [t \in TaskIds |-> IdleTask]
  /\ editor = NoEditor

Command(fn, t) ==
  /\ tasks[t].pc = "idle"
  /\ call' = [fn |-> fn, task |-> t]
  /\ UNCHANGED <<obj, translations, files, editor>>

\* the command of the palette: load, then ask for the key
AddTranslationKey(t, keyInput) ==
  /\ Command("addTranslationKey", t)
  /\ \E found \in FoundLists :
       LET loaded == findTranslationFiles(files, found)
       IN tasks' = [tasks EXCEPT ![t] =
            IF loaded.threw THEN Ended("error: Error")
            ELSE IF Len(loaded.translationFilePaths.ents) = 0
              THEN Ended("error: No translation files found")
            ELSE IF keyInput = Undefined \/ keyInput.s = <<>>
              THEN Ended("none")
            ELSE Invoked("addNewTranslationKey", keyInput.s,
                         Targets(loaded.translationFilePaths))]

\* the command behind the link of a hover, which carries the key and the paths
AddTranslationKeyFromHover(t, translationKey) ==
  /\ Command("addTranslationKeyFromHover", t)
  /\ tasks' = [tasks EXCEPT ![t] =
       Invoked("addNewTranslationKey", translationKey, Targets(HoverPaths))]

\* showTranslation up to the choice of "Add Missing Translations"
ShowTranslationAddMissing(t, translationKey) ==
  /\ Command("showTranslation", t)
  /\ \E found \in FoundLists :
       LET loaded == findTranslationFiles(files, found)
           looked == LookUpAll(loaded.translations, translationKey, 1,
                               NothingLooked)
           missing(lang) == InSeq(lang, looked.missingInLangs)
           HasLang(target) == missing(target.lang)
       IN /\ ~loaded.threw
          /\ Len(looked.results) > 0
          /\ Len(looked.missingInLangs) > 0
          /\ tasks' = [tasks EXCEPT ![t] =
               Invoked("addMissingTranslations", translationKey,
                       SelectSeq(Targets(loaded.translationFilePaths),
                                 HasLang))]

Step(fn, t, pc) ==
  /\ tasks[t].pc = pc
  /\ call' = [fn |-> fn, task |-> t]
  /\ UNCHANGED <<obj, translations, editor>>

\* the user answers the input box, or dismisses it
ShowInputBox(t, input) ==
  /\ Step("showInputBox", t, "showInputBox")
  /\ tasks' = [tasks EXCEPT ![t] = AfterInput(tasks[t], input)]
  /\ UNCHANGED files

\* readFile completes and addKeyToTranslationFile runs to its return
AddKeyToTranslationFile(t) ==
  /\ Step("addKeyToTranslationFile", t, "addKeyToTranslationFile")
  /\ tasks' = [tasks EXCEPT ![t] =
       AfterAddKey(tasks[t], files[tasks[t].targets[tasks[t].i].filePath])]
  /\ UNCHANGED files

\* writeFile completes, or fails
WriteToJsonFile(t, written) ==
  /\ Step("writeToJsonFile", t, "writeToJsonFile")
  /\ tasks' = [tasks EXCEPT ![t] = AfterWrite(tasks[t], written)]
  /\ files' = IF written
                THEN [files EXCEPT ![tasks[t].targets[tasks[t].i].filePath] =
                        Stringified(tasks[t].content)]
                ELSE files

NextAddKey ==
  \/ \E t \in TaskIds, keyInput \in InputsOf(AddKeys) :
       AddTranslationKey(t, keyInput)
  \/ \E t \in TaskIds, key \in AddKeys : AddTranslationKeyFromHover(t, key)
  \/ \E t \in TaskIds, key \in AddKeys : ShowTranslationAddMissing(t, key)
  \/ \E t \in TaskIds, input \in InputsOf(AddValues) :
       ShowInputBox(t, input)
  \/ \E t \in TaskIds : AddKeyToTranslationFile(t)
  \/ \E t \in TaskIds, written \in BOOLEAN : WriteToJsonFile(t, written)

SpecAddKey == InitAddKey /\ [][NextAddKey]_vars

(***************************************************************************)
(* Claims on the add-key commands                                          *)
(***************************************************************************)
\* the file an invocation is working on
CurrentPath(task) == task.targets[task.i].filePath

\* the dot-path names a leaf or a sub-tree of the file's content
DefinedIn(fileContent, key) ==
  /\ fileContent.kind = "json"
  /\ StrictWalk(fileContent.value, Split(key), 1) # Undefined

LastLogged(task) == task.log[Len(task.log)]

\* addKeyToTranslationFile returns to invocation t, for a key that the file
\* defines
ReturnsOnDefinedKey(t) ==
  /\ tasks[t].pc = "addKeyToTranslationFile"
  /\ tasks'[t] # tasks[t]
  /\ DefinedIn(files[CurrentPath(tasks[t])], tasks[t].key)

\* C14: when the key of an add-key operation is already defined in a language
\* file, the file is not written (its content stays as it is, no write is
\* started) and 'not modified' is reported for that language
C14_DefinedKeyNotModified ==
  [][\A t \in TaskIds :
       ReturnsOnDefinedKey(t) =>
         /\ files' = files
         /\ tasks'[t].pc # "writeToJsonFile"
         /\ Len(tasks'[t].log) = Len(tasks[t].log) + 1
         /\ LastLogged(tasks'[t]).lang = tasks[t].targets[tasks[t].i].lang
         /\ LastLogged(tasks'[t]).outcome = "not modified"
         /\ LastLogged(tasks'[t]).after = LastLogged(tasks'[t]).before]_vars

\* one command wrote the key to a language file and left alone another file,
\* which defined it
C14_Witness ==
  \E t \in TaskIds :
    /\ tasks[t].pc = "done"
    /\ \E i, j \in 1..Len(tasks[t].log) :
         /\ tasks[t].log[i].outcome = "not modified"
         /\ tasks[t].log[j].outcome = "written"

\* an invocation that went through its loop over the language files
WentThrough(task) ==
  /\ task.pc = "done"
  /\ \/ task.handler = "addMissingTranslations"
     \/ task.handler = "addNewTranslationKey" /\ task.value # <<>>

\* C15: a read, parse or write failure on one language's file does not stop
\* an add-key operation: when it ends, every language file it was given has
\* been attempted, in their order, whichever of them failed
C15_FailureDoesNotStop ==
  \A t \in TaskIds :
    WentThrough(tasks[t]) =>
      /\ Len(tasks[t].log) = Len(tasks[t].targets)
      /\ \A i \in 1..Len(tasks[t].log) :
           tasks[t].log[i].lang = tasks[t].targets[i].lang
      /\ tasks[t].shown[Len(tasks[t].shown)] = "information: Added"

\* the first language file failed and the second was written
C15_Witness ==
  \E t \in TaskIds :
    /\ WentThrough(tasks[t])
    /\ Len(tasks[t].log) = 2
    /\ tasks[t].log[1].outcome = "failed"
    /\ tasks[t].log[2].outcome = "written"

\* the other orders of failures: the second file alone, and both
C15_SecondFailed ==
  \E t \in TaskIds :
    /\ WentThrough(tasks[t])
    /\ Len(tasks[t].log) = 2
    /\ tasks[t].log[1].outcome = "written"
    /\ tasks[t].log[2].outcome = "failed"

C15_BothFailed ==
  \E t \in TaskIds :
    /\ WentThrough(tasks[t])
    /\ Len(tasks[t].log) = 2
    /\ tasks[t].log[1].outcome = "failed"
    /\ tasks[t].log[2].outcome = "failed"

\* invocation t has written its key to the file of language lang
Wrote(t, lang) ==
  \E i \in 1..Len(tasks[t].log) :
    tasks[t].log[i].lang = lang /\ tasks[t].log[i].outcome = "written"

PathOf(t, lang) ==
  tasks[t].targets[CHOOSE i \in 1..Len(tasks[t].targets) :
                     tasks[t].targets[i].lang = lang].filePath

\* C16: add-key operations on one file are serialized: after two commands
\* for different keys have both completed, each having written the file, the
\* file holds both keys
C16_NoLostUpdate ==
  \A t, u \in TaskIds, lang \in {EN, NL} :
    (/\ t # u
     /\ tasks[t].pc = "done"
     /\ tasks[u].pc = "done"
     /\ tasks[t].key # tasks[u].key
     /\ Wrote(t, lang)
     /\ Wrote(u, lang)) =>
      /\ DefinedIn(files[PathOf(t, lang)], tasks[t].key)
      /\ DefinedIn(files[PathOf(t, lang)], tasks[u].key)

\* the longest proper prefix of the key's segments that names a sub-tree of
\* the content; 0 stands for the whole tree
InsertionDepth(content, key) ==
  LET segs == Split(key)
  IN CHOOSE m \in 0..(Len(segs) - 1) :
       /\ StrictWalk(content, Prefix(segs, m), 1).tag = "object"
       /\ \A n \in (m + 1)..(Len(segs) - 1) :
            StrictWalk(content, Prefix(segs, n), 1).tag # "object"

\* the flattened key lies in the sub-tree at the first m segments of key
InSubTree(flatKey, key, m) ==
  /\ Len(Split(flatKey)) >= m
  /\ Prefix(Split(flatKey), m) = Prefix(Split(key), m)

RemoveAt(seq, n) == SubSeq(seq, 1, n - 1) \o SubSeq(seq, n + 1, Len(seq))

\* the entries of before are those of after less the new one, in their order
EntriesKept(before, after, key, value) ==
  LET old == flattenKeys(before, <<>>)
      new == flattenKeys(after, <<>>)
  IN \E n \in 1..Len(new) :
       /\ new[n] = [key |-> key, value |-> Str(value)]
       /\ RemoveAt(new, n) = old

\* the new entry comes after the entries that its sub-tree had
NewEntryAfterSubTree(before, after, key) ==
  LET new == flattenKeys(after, <<>>)
      m == InsertionDepth(before, key)
  IN \A n, i \in 1..Len(new) :
       (new[n].key = key /\ new[i].key # key /\ InSubTree(new[i].key, key, m))
         => i < n

WrittenEntries(task) ==
  {task.log[i] : i \in {i \in 1..Len(task.log) :
                          task.log[i].outcome = "written"}}

\* C17: the content written after adding a key that was absent has the
\* flattened entries the file had, in their order, and the new entry after
\* all the entries of the sub-tree it was inserted into
C17_WritePreservesEntries ==
  \A t \in TaskIds :
    tasks[t].pc # "idle" =>
      \A e \in WrittenEntries(tasks[t]) :
        /\ EntriesKept(e.before, e.after, tasks[t].key, tasks[t].value)
        /\ NewEntryAfterSubTree(e.before, e.after, tasks[t].key)

\* no segment of the key is an array index
NoArrayIndex(key) == \A i \in 1..Len(Split(key)) : ~IsArrayIndex(Split(key)[i])

\* no proper prefix of the key names a leaf of the content
NoLeafOnTheWay(content, key) ==
  \A m \in 1..(Len(Split(key)) - 1) :
    StrictWalk(content, Prefix(Split(key), m), 1).tag \in {"undefined", "object"}

\* the same, of the keys that have no array index for segment and do not pass
\* through a leaf
C17_OrdinaryKeysOnly ==
  \A t \in TaskIds :
    tasks[t].pc # "idle" =>
      \A e \in WrittenEntries(tasks[t]) :
        (NoArrayIndex(tasks[t].key) /\ NoLeafOnTheWay(e.before, tasks[t].key))
          => /\ EntriesKept(e.before, e.after, tasks[t].key, tasks[t].value)
             /\ NewEntryAfterSubTree(e.before, e.after, tasks[t].key)

\* the same, of the keys that do not pass through a leaf: an array index for
\* segment is enough to put the new entry before the entries of its sub-tree
C17_NoLeafOnTheWayOnly ==
  \A t \in TaskIds :
    tasks[t].pc # "idle" =>
      \A e \in WrittenEntries(tasks[t]) :
        NoLeafOnTheWay(e.before, tasks[t].key)
          => /\ EntriesKept(e.before, e.after, tasks[t].key, tasks[t].value)
             /\ NewEntryAfterSubTree(e.before, e.after, tasks[t].key)

\* a key was written into a sub-tree that is followed by another entry
C17_OrdinaryKeyWritten ==
  \E t \in TaskIds :
    /\ tasks[t].pc = "done"
    /\ tasks[t].key = Join(<<A, D>>)
    /\ \E e \in WrittenEntries(tasks[t]) : e.before = AbcTree

\* what addKeyToTranslationFile returned to a command without throwing: the
\* content it parsed and the content it gave back
ReturnedContents(task) ==
  {task.log[i] : i \in {i \in 1..Len(task.log) :
                          task.log[i].outcome \in {"written", "not modified"}}}

\* every (path, value) entry of before is an entry of after
NoEntryLost(before, after) ==
  Range(flattenKeys(before, <<>>)) \subseteq Range(flattenKeys(after, <<>>))

\* C27: an add-key operation never destroys a translation: every (path,
\* value) entry of the flattened content before addKeyToTranslationFile is
\* there with the same value afterwards, also when a proper prefix of the
\* new key names a leaf
C27_NeverDestroys ==
  \A t \in TaskIds :
    tasks[t].pc # "idle" =>
      \A e \in ReturnedContents(tasks[t]) : NoEntryLost(e.before, e.after)

\* the same, of the keys that do not pass through a leaf
C27_NoLeafOnTheWayOnly ==
  \A t \in TaskIds :
    tasks[t].pc # "idle" =>
      \A e \in ReturnedContents(tasks[t]) :
        NoLeafOnTheWay(e.before, tasks[t].key) => NoEntryLost(e.before, e.after)

\* the key c.d was added to {a: {b: x}, c: x}: the entry c is gone
C27_LeafDestroyed ==
  \E t \in TaskIds :
    /\ tasks[t].pc = "done"
    /\ tasks[t].key = Join(<<C, D>>)
    /\ \E e \in WrittenEntries(tasks[t]) :
         /\ e.before = AbcTree
         /\ getNestedProperty(e.after, C) # Str(X)

(***************************************************************************)
(* Text Highlighter                                                        *)
(***************************************************************************)

EndsWith(s, p) ==
  Len(p) <= Len(s) /\ SubSeq(s, Len(s) - Len(p) + 1, Len(s)) = p

\* the file extensions isJSXFile accepts
jsxExtensions ==
  { <<".", "j", "s", "x">>, <<".", "t", "s", "x">>, <<".", "j", "s">>,
    <<".", "t", "s">> }

isJSXFile(fileName) ==
  \E ext \in jsxExtensions : EndsWith(toLowerCase(fileName), ext)

\* the characters that [^<>{] leaves out
jsxTextStop == {"<", ">", "{"}

RECURSIVE RunEnd(_, _)
\* the index of the first character from j on that [^<>{]* does not take
RunEnd(text, j) ==
  IF j > Len(text) \/ text[j] \in jsxTextStop THEN j
  ELSE RunEnd(text, j + 1)

RECURSIVE jsxTextRegex(_, _)
\* the matches of />([^<>{]*?)</g from index lastIndex on, each with its
\* group and the index of its ">" (both indices count from 1)
jsxTextRegex(text, lastIndex) ==
  IF lastIndex > Len(text) THEN <<>>
  ELSE IF text[lastIndex] # ">" THEN jsxTextRegex(text, lastIndex + 1)
  ELSE LET k == RunEnd(text, lastIndex + 1)
       IN IF k <= Len(text) /\ text[k] = "<"
            THEN <<[index |-> lastIndex,
                    content |-> SubSeq(text, lastIndex + 1, k - 1)]>>
                 \o jsxTextRegex(text, k + 1)
          ELSE jsxTextRegex(text, lastIndex + 1)

T_PAREN == <<"t", "(">>
CLOSE_PAREN == <<")">>

\* a match that the loop of highlightUntranslatedText does not skip
IsCandidate(match) ==
  LET content == Trim(match.content)
  IN /\ content # <<>>
     /\ ~(Includes(match.content, T_PAREN)
            /\ Includes(match.content, CLOSE_PAREN))
     /\ Len(content) > 1
     /\ isLikelyTranslatableText(content)

\* the trimmed content of a match and its offsets in the text, from 0
CandidateOf(match) ==
  LET leadingSpace == Len(match.content) - Len(TrimStart(match.content))
      content == Trim(match.content)
      \* match.index + 1 + leadingSpace, match.index counting from 0
      contentStartIndex == (match.index - 1) + 1 + leadingSpace
  IN [content |-> content,
      contentStartIndex |-> contentStartIndex,
      contentEndIndex |-> contentStartIndex + Len(content)]

\* the texts highlightUntranslatedText looks up, in the order of the loop
Candidates(text) ==
  LET matches == jsxTextRegex(text, 1)
      kept == SelectSeq(matches, IsCandidate)
  IN [n \in 1..Len(kept) |-> CandidateOf(kept[n])]

\* document.positionAt of a one-line document: the offset, clipped
positionAt(text, offset) == Min(offset, Len(text))

HIGHLIGHT_COMMAND == "translationHelper.highlightUntranslated"
ON_DID_CHANGE_ACTIVE_TEXT_EDITOR == "onDidChangeActiveTextEditor"
ON_DID_CHANGE_TEXT_DOCUMENT == "onDidChangeTextDocument"

\* a call of highlightUntranslatedText that returned before the loop
ReturnedRun(trigger, ed) ==
  [pc |-> "done", trigger |-> trigger, editor |-> ed.id, text |-> ed.text,
   candidates |-> <<>>, i |-> 1, untranslatedRanges |-> <<>>,
   existingTranslationRanges |-> <<>>, applied |-> FALSE]

\* a call of highlightUntranslatedText up to its first await, or to its end
\* when the loop awaits nothing
StartedRun(trigger, ed) ==
  IF ~isJSXFile(ed.fileName) THEN ReturnedRun(trigger, ed)
  ELSE LET candidates == Candidates(ed.text)
       IN [pc |-> IF candidates = <<>> THEN "done"
                  ELSE "textExistsInTranslations",
           trigger |-> trigger, editor |-> ed.id, text |-> ed.text,
           candidates |-> candidates, i |-> 1, untranslatedRanges |-> <<>>,
           existingTranslationRanges |-> <<>>,
           applied |-> candidates = <<>>]

\* editor.setDecorations of both decoration types; an editor that was
\* replaced shows nothing any more
setDecorations(ed, run) ==
  IF ed.open /\ ed.id = run.editor
    THEN [ed EXCEPT !.untranslated = run.untranslatedRanges,
                    !.existing = run.existingTranslationRanges]
  ELSE ed

\* the run after the await of textExistsInTranslations resolved, the
\* dictionaries being those of the workspace at that time
AfterLookup(run, fs, ed) ==
  LET candidate == run.candidates[run.i]
      loaded == findTranslationFiles(fs, <<>>)
      existsInTranslations ==
        IF loaded.threw THEN FALSE
        ELSE textExistsInTranslations(loaded.translations,
                                      candidate.content).existsInTranslations
      document == IF ed.open /\ ed.id = run.editor THEN ed.text ELSE run.text
      range == [start |-> positionAt(document, candidate.contentStartIndex),
                end |-> positionAt(document, candidate.contentEndIndex)]
      last == run.i = Len(run.candidates)
  IN [run EXCEPT
        !.existingTranslationRanges =
          IF existsInTranslations THEN Append(@, range) ELSE @,
        !.untranslatedRanges =
          IF existsInTranslations THEN @ ELSE Append(@, range),
        !.i = IF last THEN @ ELSE @ + 1,
        !.pc = IF last THEN "done" ELSE @,
        !.applied = last]

(***************************************************************************)
(* The highlighter run in a window                                         *)
(***************************************************************************)

\* the calls of highlightUntranslatedText in one behaviour
MaxRuns == 2

APP_JSX ==
  <<"A", "p", "p", ".", "j", "s", "x">>
NOTES_MD ==
  <<"n", "o", "t", "e", "s", ".", "m", "d">>
FileNames == {APP_JSX, NOTES_MD}

SAVE_DOCUMENT ==
  <<"<", "b", ">", "S", "a", "v", "e", "<", "/", "b", ">">>
SAVE_EDIT_DOCUMENT ==
  <<"<", "b", ">", " ", "S", "a", "v", "e", "<", "/", "b", ">", "<", "i",
    ">", "E", "d", "i", "t", "<", "/", "i", ">">>
KEY_DOCUMENT ==
  <<"<", "p", ">", "{", "t", "(", "'", "a", "'", ")", "}", "<", "/", "p",
    ">">>
DocumentTexts == {SAVE_DOCUMENT, SAVE_EDIT_DOCUMENT, KEY_DOCUMENT}

ClosedEditor ==
  [open |-> FALSE, id |-> 0, fileName |-> <<>>, text |-> <<>>,
   untranslated |-> <<>>, existing |-> <<>>]

\* a text editor that shows no decoration yet
OpenedEditor(id, fileName, text) ==
  [open |-> TRUE, id |-> id, fileName |-> fileName, text |-> text,
   untranslated |-> <<>>, existing |-> <<>>]

\* the workspace: without dictionaries, or with messages/en.json
HighlighterWorkspaces ==
  { [p \in WorkspacePaths |-> Absent],
    [p \in WorkspacePaths |->
       IF p = MESSAGES_EN THEN Json(CommonTree) ELSE Absent] }

\* obj holds the configuration section nextIntlHelper of the window
InitHighlighter ==
  /\ obj \in {[autoHighlight |-> b] : b \in BOOLEAN}
  /\ translations = EmptyObject
  /\ call = NoCall
  /\ files \in HighlighterWorkspaces
  /\ tasks = NoTasks
  /\ editor \in {ClosedEditor}
                  \cup {OpenedEditor(1, f, d) :
                          f \in FileNames, d \in DocumentTexts}

\* highlightUntranslatedText(editor), called by the handler named trigger
HighlightUntranslatedText(trigger, ed) ==
  LET run == StartedRun(trigger, ed)
  IN /\ tasks' = Append(tasks, run)
     /\ editor' = IF run.applied THEN setDecorations(ed, run) ELSE ed

\* the command translationHelper.highlightUntranslated
HighlightCommand ==
  /\ call' = [fn |-> HIGHLIGHT_COMMAND]
  /\ IF ~editor.open
       THEN UNCHANGED <<tasks, editor>>
     ELSE /\ Len(tasks) < MaxRuns
          /\ HighlightUntranslatedText(HIGHLIGHT_COMMAND, editor)
  /\ UNCHANGED <<obj, translations, files>>

NextEditorId == Len(tasks) + 2

\* the handler of onDidChangeActiveTextEditor: another editor became the
\* active one, or none is active any more
OnDidChangeActiveTextEditor ==
  /\ call' = [fn |-> ON_DID_CHANGE_ACTIVE_TEXT_EDITOR]
  /\ \/ /\ editor.open
        /\ editor' = ClosedEditor
        /\ UNCHANGED tasks
     \/ /\ Len(tasks) < MaxRuns
        /\ \E f \in FileNames, d \in DocumentTexts :
             HighlightUntranslatedText(ON_DID_CHANGE_ACTIVE_TEXT_EDITOR,
                                       OpenedEditor(NextEditorId, f, d))
  /\ UNCHANGED <<obj, translations, files>>

\* the handler of onDidChangeTextDocument, for an edit of the document of
\* the active editor
OnDidChangeTextDocument ==
  /\ editor.open
  /\ Len(tasks) < MaxRuns
  /\ call' = [fn |-> ON_DID_CHANGE_TEXT_DOCUMENT]
  /\ \E d \in DocumentTexts \ {editor.text} :
       HighlightUntranslatedText(ON_DID_CHANGE_TEXT_DOCUMENT,
                                 [editor EXCEPT !.text = d])
  /\ UNCHANGED <<obj, translations, files>>

\* the await of textExistsInTranslations of one run resolves; after the last
\* one the run sets the decorations
TextExistsInTranslations ==
  \E r \in 1..Len(tasks) :
    /\ tasks[r].pc = "textExistsInTranslations"
    /\ LET run == AfterLookup(tasks[r], files, editor)
       IN /\ tasks' = [tasks EXCEPT ![r] = run]
          /\ editor' = IF run.applied THEN setDecorations(editor, run)
                       ELSE editor
    /\ UNCHANGED <<obj, translations, call, files>>

NextHighlighter ==
  \/ HighlightCommand
  \/ OnDidChangeActiveTextEditor
  \/ OnDidChangeTextDocument
  \/ TextExistsInTranslations

SpecHighlighter == InitHighlighter /\ [][NextHighlighter]_vars

(***************************************************************************)
(* Claims on the highlighter                                               *)
(***************************************************************************)

\* C18: when the setting nextIntlHelper.autoHighlight is false, highlighting
\* runs only on the explicit highlight command: no call of
\* highlightUntranslatedText comes from a change of the active editor or from
\* an edit of the document
C18_NoAutoHighlightWhenOff ==
  ~obj.autoHighlight =>
    \A r \in 1..Len(tasks) : tasks[r].trigger = HIGHLIGHT_COMMAND

\* what the code does: the setting makes no difference to the handlers, a
\* call from an edit sets decorations with the setting off
C18_EditHighlightsWhenOff ==
  /\ ~obj.autoHighlight
  /\ editor.open
  /\ editor.untranslated # <<>>
  /\ \E r \in 1..Len(tasks) :
       /\ tasks[r].trigger = ON_DID_CHANGE_TEXT_DOCUMENT
       /\ tasks[r].applied
       /\ tasks[r].untranslatedRanges = editor.untranslated

\* highlighting was triggered by successive changes of the document of the
\* active editor, and by nothing else, and every run has finished
SuccessiveChangesDone ==
  /\ editor.open
  /\ Len(tasks) >= 2
  /\ \A r \in 1..Len(tasks) :
       /\ tasks[r].trigger = ON_DID_CHANGE_TEXT_DOCUMENT
       /\ tasks[r].editor = editor.id
       /\ tasks[r].pc = "done"

\* C28: when highlighting is triggered by successive document changes, once
\* all the runs have finished the decorations in effect are those computed
\* from the latest document text: a run started for an older text does not
\* apply its decorations after the run started for a newer text
C28_LatestTextWins ==
  (SuccessiveChangesDone /\ isJSXFile(editor.fileName)) =>
    LET latest == tasks[Len(tasks)]
    IN /\ latest.text = editor.text
       /\ editor.untranslated = latest.untranslatedRanges
       /\ editor.existing = latest.existingTranslationRanges

\* the same, step by step: no run sets its decorations once a run started
\* after it, for the same editor, has set its own
C28_NoStaleApplication ==
  [][\A r \in 1..Len(tasks) :
       (/\ Len(tasks') = Len(tasks)
        /\ ~tasks[r].applied
        /\ tasks'[r].applied)
         => \A n \in (r + 1)..Len(tasks) :
              tasks[n].editor = tasks[r].editor => ~tasks[n].applied]_vars

\* two runs for two texts have finished and the decorations in effect are
\* those of the older text
C28_StaleDecorations ==
  /\ SuccessiveChangesDone
  /\ isJSXFile(editor.fileName)
  /\ tasks[1].text # tasks[2].text
  /\ tasks[2].text = editor.text
  /\ tasks[2].applied
  /\ editor.untranslated = tasks[1].untranslatedRanges
  /\ editor.untranslated # tasks[2].untranslatedRanges

\* the runs of successive changes finished in the order they started
C28_InOrder ==
  /\ SuccessiveChangesDone
  /\ isJSXFile(editor.fileName)
  /\ tasks[1].candidates # <<>>
  /\ tasks[2].candidates # <<>>
  /\ editor.untranslated = tasks[2].untranslatedRanges
  /\ editor.untranslated # tasks[1].untranslatedRanges

(***************************************************************************)
(* Translate Text command                                                  *)
(***************************************************************************)
\* the commands that activate and registerTextHighlighter register
registeredCommands ==
  { "translationHelper.showTranslation",
    "translationHelper.insertTranslationKey",
    "translationHelper.addTranslationKey",
    "translationHelper.addTranslationKeyFromHover",
    "translationHelper.highlightUntranslated",
    "translationHelper.translateText",
    "translationHelper.findKeyForText" }

ADD_TRANSLATION_KEY_WITH_VALUE == "translationHelper.addTranslationKeyWithValue"

\* vscode.commands.executeCommand: rejects when no such command is
\* registered; completed tells whether a registered handler ended without
\* an error
executeCommand(command, completed) ==
  IF command \notin registeredCommands THEN "rejected: command not found"
  ELSE IF completed THEN "resolved"
  ELSE "rejected"

\* `{t("${key}")}`
TCall(key) == <<"{", "t", "(", "\"">> \o key \o <<"\"", ")", "}">>

\* editBuilder.replace(range, ...) on a one-line document, the range in
\* offsets from 0
replace(text, range, with) ==
  SubSeq(text, 1, range.start) \o with \o SubSeq(text, range.end + 1, Len(text))

\* translateTextAtRange up to its first await
TranslateTextStarted(text, range, document) ==
  [pc |-> "showInputBox", text |-> text, range |-> range,
   suggestedKey |-> suggestTranslationKey(text), key |-> Undefined,
   loaded |-> FALSE, executed |-> "not called", shown |-> <<>>,
   before |-> document]

\* the catch of translateTextAtRange
TranslateTextCaught(task) ==
  [task EXCEPT !.pc = "done",
               !.shown = Append(@, "error: Error translating text")]

\* after await showInputBox: if (!key) return
AfterKeyInput(task, input) ==
  IF input = Undefined \/ input.s = <<>>
    THEN [task EXCEPT !.pc = "done", !.key = input]
    ELSE [task EXCEPT !.pc = "findTranslationFiles", !.key = input]

\* after await findTranslationFiles()
AfterLoad(task, loaded) ==
  IF loaded.threw THEN TranslateTextCaught(task)
  ELSE [task EXCEPT !.pc = "executeCommand", !.loaded = TRUE]

\* an edit made although the command was rejected
AfterExecuteCommand_EditsAnyway(task, outcome, document) ==
  [task |-> IF outcome = "resolved"
              THEN [task EXCEPT !.pc = "done", !.executed = outcome]
              ELSE TranslateTextCaught([task EXCEPT !.executed = outcome]),
   document |-> replace(document, task.range, TCall(task.key.s))]

\* after await executeCommand(addCommand, key, text, translationFilePaths):
\* the edit, or the catch; gives the task and the document
AfterExecuteCommand(task, outcome, document) ==
  IF outcome = "resolved"
    THEN [task |-> [task EXCEPT !.pc = "done", !.executed = outcome],
          document |-> replace(document, task.range, TCall(task.key.s))]
    ELSE [task |-> TranslateTextCaught([task EXCEPT !.executed = outcome]),
          document |-> document]

(***************************************************************************)
(* The translate text command run on a document                            *)
(***************************************************************************)
\* a document and the range of the text that the hover link carries
Selections ==
  { [document |-> SAVE_DOCUMENT, text |-> <<"S", "a", "v", "e">>,
     range |-> [start |-> 3, end |-> 7]],
    [document |-> SAVE_EDIT_DOCUMENT, text |-> <<"E", "d", "i", "t">>,
     range |-> [start |-> 15, end |-> 19]],
    [document |-> <<"<", "p", ">">> \o ADD_A_NEW_ENTRY \o <<"<", "/", "p", ">">>,
     text |-> ADD_A_NEW_ENTRY, range |-> [start |-> 3, end |-> 18]] }

TranslateWorkspaces ==
  { NoFiles,
    [p \in WorkspacePaths |-> Absent],
    [p \in WorkspacePaths |->
       IF p = MESSAGES_EN THEN Json(CommonTree) ELSE Absent],
    [p \in WorkspacePaths |->
       IF p = MESSAGES_EN THEN Json(CommonTree)
       ELSE IF p = MESSAGES_NL THEN Malformed ELSE Absent] }

\* obj holds the arguments of the command link
InitTranslate ==
  /\ \E sel \in Selections, open \in BOOLEAN :
       /\ obj = [text |-> sel.text, range |-> sel.range]
       /\ editor = [open |-> open, text |-> sel.document]
  /\ translations = EmptyObject
  /\ call = NoCall
  /\ files \in TranslateWorkspaces
  /\ tasks = NoTasks

\* the command translationHelper.translateText
TranslateText ==
  /\ tasks = NoTasks
  /\ call' = [fn |-> "translationHelper.translateText"]
  /\ tasks' = IF editor.open
                THEN <<TranslateTextStarted(obj.text, obj.range, editor.text)>>
                ELSE tasks
  /\ UNCHANGED <<obj, translations, files, editor>>

\* what the user may answer to the prompt: Escape, or the box confirmed
\* empty, as suggested, or with another key
KeyInputs(task) == {Undefined, Str(<<>>), Str(task.suggestedKey), Str(A)}

TranslateShowInputBox ==
  /\ Len(tasks) = 1
  /\ tasks[1].pc = "showInputBox"
  /\ \E input \in KeyInputs(tasks[1]) :
       tasks' = <<AfterKeyInput(tasks[1], input)>>
  /\ UNCHANGED <<obj, translations, call, files, editor>>

TranslateFindTranslationFiles ==
  /\ Len(tasks) = 1
  /\ tasks[1].pc = "findTranslationFiles"
  /\ tasks' = <<AfterLoad(tasks[1], findTranslationFiles(files, <<>>))>>
  /\ UNCHANGED <<obj, translations, call, files, editor>>

TranslateExecuteCommand ==
  /\ Len(tasks) = 1
  /\ tasks[1].pc = "executeCommand"
  /\ \E completed \in BOOLEAN :
       LET after == AfterExecuteCommand(tasks[1],
                      executeCommand(ADD_TRANSLATION_KEY_WITH_VALUE, completed),
                      editor.text)
       IN /\ tasks' = <<after.task>>
          /\ editor' = [editor EXCEPT !.text = after.document]
  /\ UNCHANGED <<obj, translations, call, files>>

NextTranslate ==
  \/ TranslateText
  \/ TranslateShowInputBox
  \/ TranslateFindTranslationFiles
  \/ TranslateExecuteCommand

SpecTranslate == InitTranslate /\ [][NextTranslate]_vars

(***************************************************************************)
(* Claims on the translate text command                                    *)
(***************************************************************************)
\* C29: translateTextAtRange replaces the text by {t("key")} only after the
\* user confirmed a non-empty key and the add-key command completed without
\* an error; when the prompt is cancelled, or loading or adding the key
\* fails, the document is as it was
C29_ReplacedOnlyAfterSuccess ==
  \A n \in 1..Len(tasks) :
    LET task == tasks[n]
        succeeded ==
          /\ task.key # Undefined
          /\ task.key.s # <<>>
          /\ task.loaded
          /\ task.executed = "resolved"
    IN /\ editor.text # task.before =>
            /\ succeeded
            /\ editor.text = replace(task.before, task.range, TCall(task.key.s))
       /\ (task.pc = "done" /\ ~succeeded) => editor.text = task.before

\* the key was confirmed and the dictionaries loaded, the add-key command
\* failed, the error was shown and the document is as it was
C29_Witness ==
  /\ Len(tasks) = 1
  /\ tasks[1].pc = "done"
  /\ tasks[1].key = Str(KEY_ADD_NEW_ENTRY)
  /\ tasks[1].loaded
  /\ tasks[1].executed # "resolved"
  /\ tasks[1].shown = <<"error: Error translating text">>
  /\ editor.text = tasks[1].before

\* the prompt was cancelled
C29_Cancelled ==
  /\ Len(tasks) = 1
  /\ tasks[1].pc = "done"
  /\ tasks[1].key = Undefined
  /\ tasks[1].shown = <<>>
  /\ editor.text = tasks[1].before

\* loading failed on a malformed file
C29_LoadFailed ==
  /\ Len(tasks) = 1
  /\ tasks[1].pc = "done"
  /\ tasks[1].key # Undefined
  /\ ~tasks[1].loaded
  /\ files # NoFiles
  /\ tasks[1].shown = <<"error: Error translating text">>

\* the command that translateTextAtRange executes is registered nowhere: its
\* call is always rejected and no document is ever edited
C29_NeverReplaced ==
  \A n \in 1..Len(tasks) :
    /\ tasks[n].executed # "resolved"
    /\ editor.text = tasks[n].before

====
